---------------------------- MODULE Spec2Model ----------------------------
(***************************************************************************)
(* Model of the thesis-to-code pipeline (lunwentocode):                    *)
(*   - ValidatorAgent  (app/agents/validator_agent.py)                     *)
(*   - ThesisToCodeWorkflow._apply_fixes (app/core/workflow.py)            *)
(* Source text is abstracted to the attributes the code reads from it:     *)
(* whether ast.parse accepts it, the line of its SyntaxError, whether it   *)
(* is the empty string (falsy in Python), and what the advisory checks of  *)
(* _static_analysis see in its syntax tree.                                *)
(***************************************************************************)
EXTENDS Naturals, Integers, Sequences, FiniteSets, TLC

VARIABLES
    max_retries,      \* ValidatorAgent.max_retries (settings.MAX_CODE_RETRIES)
    generated_codes,  \* the artifact list handed to ValidatorAgent.run
    vpc,              \* control point of ValidatorAgent.run / _apply_fixes
    vidx,             \* position of the for-loop of ValidatorAgent.run
    current_code,     \* _validate_single_code: current_code
    retry_count,      \* _validate_single_code: retry_count
    results,          \* ValidatorAgent.run: results
    final_codes,      \* ThesisToCodeWorkflow.run: final_codes
    fix_log,          \* history: per artifact, the responses to its _fix_code calls
    working,          \* history: per artifact, current_code when its outcome was returned
    exit_by,          \* history: per artifact, the return statement that produced its outcome
    chat_args,        \* LLM.chat: tools, tool_choice, max_tokens, max_retries
    chat_pc,          \* LLM.chat: control point
    attempt,          \* LLM.chat: the loop variable of `for attempt in range(max_retries)`
    chat_result,      \* LLM.chat: what the call gave its caller
    service_log,      \* history: the outcome of each client.chat.completions.create call
    sleep_log,        \* history: the argument of each asyncio.sleep call of LLM.chat
    pdf_path,         \* ParserAgent.run: the kind of its argument
    ppc,              \* ParserAgent: control point
    now,              \* time.time(), in seconds
    start_time,       \* _poll_task_result: start_time
    markdown_content, \* ParserAgent.run: markdown_content
    parsed_content,   \* what ParserAgent.run returned
    tier_log,         \* history: the tiers invoked, in order
    upload_result,    \* history: what _upload_and_parse returned
    poll_exit,        \* history: the return statement that ended _poll_task_result
    last_check,       \* history: seconds elapsed when the latest status check started
    slept,            \* history: seconds slept since the latest status check
    completed_seen,   \* history: a status check has answered "completed"
    last_status,      \* history: what the latest status check gave
    md_path,          \* ThesisToCodeWorkflow.run: its argument (suffix and kind)
    wpc,              \* ThesisToCodeWorkflow.run: control point
    task_data,        \* the task descriptors in the model's decomposition answer
    code_tasks,       \* AnalysisResult.code_tasks
    project_files,    \* ProjectOutput.files: a dict, as its items in insertion order
    readme,           \* ProjectOutput.readme: the artifacts it lists, in order
    raised_in,        \* history: the step of run whose exception ended it
    util_args,        \* a call of a helper function: its arguments
    util_pc,          \* that call: "call", "returned" or "raised"
    util_ret,         \* that call: what it returned
    self_task_id,     \* ThesisToCodeWorkflow.task_id of the shared controller
    self_work_dir,    \* ThesisToCodeWorkflow.work_dir of the shared controller
    runs,             \* the run calls on that controller: position and locals
    executing,        \* the run call the event loop is executing, if any
    disk,             \* the files under the output directory
    signalled         \* the run calls whose caller's deadline has passed

\* ValidatorAgent and _apply_fixes
vvars == <<max_retries, generated_codes, vpc, vidx, current_code, retry_count,
           results, final_codes, fix_log, working, exit_by>>

\* LLM.chat
lvars == <<chat_args, chat_pc, attempt, chat_result, service_log, sleep_log>>

\* ParserAgent
pvars == <<pdf_path, ppc, now, start_time, markdown_content, parsed_content,
           tier_log, upload_result, poll_exit, last_check, slept, completed_seen,
           last_status>>

\* ThesisToCodeWorkflow
wvars == <<md_path, wpc, task_data, code_tasks, project_files, readme, raised_in>>

\* one call of a helper function
uvars == <<util_args, util_pc, util_ret>>

\* run calls on one shared controller
rvars == <<self_task_id, self_work_dir, runs, executing, disk, signalled>>

vars == <<vvars, lvars, pvars, wvars, uvars, rvars>>

---------------------------------------------------------------------------
(* Bounds of the model *)

\* largest retry budget explored (0 .. MaxBudget)
MaxBudget == 2

\* longest artifact list handed to the validator
MaxArtifacts == 2

\* line numbers a SyntaxError may carry
ErrLines == {1, 2}

\* task ids in use ("task_" + 8 hex digits in the code)
TaskIds == {"task_a", "task_b"}

\* most code tasks the analyzer returns in a run of the whole workflow
MaxTasks == 1

---------------------------------------------------------------------------
(* Source text *)

\* text ast.parse rejects with a SyntaxError at line l
BadText(l) ==
    [syn |-> FALSE, errline |-> l, empty |-> FALSE,
     has_entry |-> FALSE, has_try |-> FALSE, undocumented |-> FALSE]

\* the empty string: ast.parse accepts it, Python treats it as false
EmptyText ==
    [syn |-> TRUE, errline |-> 0, empty |-> TRUE,
     has_entry |-> FALSE, has_try |-> FALSE, undocumented |-> FALSE]

\* non-empty text ast.parse accepts
GoodTexts ==
    [syn : {TRUE}, errline : {0}, empty : {FALSE},
     has_entry : BOOLEAN, has_try : BOOLEAN, undocumented : BOOLEAN]

Texts == {BadText(l) : l \in ErrLines} \cup {EmptyText} \cup GoodTexts

\* Python truthiness of a str
Truthy(text) == ~text.empty

\* Optional[T]: None is <<>>, a value v is <<v>>
None == <<>>
Some(v) == <<v>>

\* the sequences over S of length at most n
SeqsUpTo(S, n) == UNION {[1..k -> S] : k \in 0..n}

\* GeneratedCode (the fields the validator and _apply_fixes read)
GeneratedCode == [task_id : TaskIds, code : Texts]

---------------------------------------------------------------------------
(* ValidatorAgent: the checks *)

NoError == [kind |-> "none", line |-> 0]
SyntaxErrorMsg(text) == [kind |-> "syntax", line |-> text.errline]
ImportErrorMsg(text) == [kind |-> "import", line |-> text.errline]
ExceededMsg == [kind |-> "exceeded", line |-> 0]

\* _check_syntax: (True, None) or (False, "第{lineno}行: {msg}")
_check_syntax(code) ==
    IF code.syn THEN <<TRUE, NoError>> ELSE <<FALSE, SyntaxErrorMsg(code)>>

\* _check_imports: True whenever ast.parse succeeds; the collected imports
\* are not checked against anything
_check_imports(code) ==
    IF code.syn THEN <<TRUE, NoError>> ELSE <<FALSE, ImportErrorMsg(code)>>

\* _static_analysis: the advisory issues, in the order the code appends them
_static_analysis(code) ==
    LET issues ==
            (IF ~code.has_entry THEN <<"entry">> ELSE <<>>)
            \o (IF ~code.has_try THEN <<"try">> ELSE <<>>)
            \o (IF code.undocumented THEN <<"doc">> ELSE <<>>)
    IN  IF code.syn THEN <<Len(issues) = 0, issues>>
        ELSE <<FALSE, <<"error">>>>

\* what llm.simple_chat gives _fix_code: it raises, it answers without a
\* ```python block, or it answers with a first ```python block
FixResponses ==
    {[kind |-> "raise", text |-> EmptyText], [kind |-> "prose", text |-> EmptyText]}
    \cup [kind : {"code"}, text : Texts]

\* mutant of _fix_code: the first fenced block is returned unchecked
_fix_code_Unchecked(response) ==
    IF response.kind = "code" THEN Some(response.text) ELSE None

\* _fix_code: the first fenced block if ast.parse accepts it, else None
_fix_code(response) ==
    IF response.kind = "code" /\ _check_syntax(response.text)[1]
    THEN Some(response.text)
    ELSE None

\* `if fixed_code:` on an Optional[str]
FixUsable(fixed_code) == fixed_code # None /\ Truthy(fixed_code[1])

---------------------------------------------------------------------------
(* ValidationResult *)

ValidationResult(task_id, is_valid, syntax_check, import_check, error, suggestions, fixed) ==
    [task_id |-> task_id, is_valid |-> is_valid, syntax_check |-> syntax_check,
     import_check |-> import_check, execution_check |-> FALSE,
     error_message |-> error, suggestions |-> suggestions, fixed_code |-> fixed]

\* lines 83-89
SyntaxFailure(code, err) ==
    ValidationResult(code.task_id, FALSE, FALSE, TRUE, err, <<"check_syntax">>, None)

\* lines 102-109
ImportFailure(code, err) ==
    ValidationResult(code.task_id, FALSE, TRUE, FALSE, err, <<"check_imports">>, None)

\* mutant of ValidOutcome: an advisory issue makes the artifact invalid
ValidOutcome_AdvisoryBlocks(code, current, analysis) ==
    ValidationResult(code.task_id, analysis[1], TRUE, TRUE, NoError,
                     IF ~analysis[1] THEN analysis[2] ELSE <<>>,
                     IF current # code.code THEN Some(current) ELSE None)

\* lines 112-127
ValidOutcome(code, current, analysis) ==
    ValidationResult(code.task_id, TRUE, TRUE, TRUE, NoError,
                     IF ~analysis[1] THEN analysis[2] ELSE <<>>,
                     IF current # code.code THEN Some(current) ELSE None)

\* mutant of BudgetExhausted: the outcome carries the working text
BudgetExhausted_WithWorkingText(code) ==
    ValidationResult(code.task_id, FALSE, TRUE, TRUE, ExceededMsg,
                     <<"check_manually">>, Some(current_code))

\* lines 130-135
BudgetExhausted(code) ==
    ValidationResult(code.task_id, FALSE, TRUE, TRUE, ExceededMsg,
                     <<"check_manually">>, None)

\* mutant of LoopGuard: one iteration too many
LoopGuard_OffByOne(count, budget) == count <= budget

\* the while condition of _validate_single_code
LoopGuard(count, budget) == count < budget

---------------------------------------------------------------------------
(* ValidatorAgent.run and _validate_single_code *)

\* _validate_single_code returns result: run appends it and moves on
ReturnOutcome(result, how) ==
    /\ results' = Append(results, result)
    /\ working' = Append(working, current_code)
    /\ exit_by' = Append(exit_by, how)
    /\ vidx' = vidx + 1
    /\ vpc' = "next"
    /\ UNCHANGED <<current_code, retry_count>>

\* a _fix_code call and what the loop does with its result
FixOrFail(response, failure, how) ==
    LET fixed_code == _fix_code(response)
    IN  /\ fix_log' = [fix_log EXCEPT ![vidx] = Append(@, response)]
        /\ IF FixUsable(fixed_code)
           THEN /\ current_code' = fixed_code[1]
                /\ retry_count' = retry_count + 1
                /\ UNCHANGED <<results, working, exit_by, vidx, vpc>>
           ELSE ReturnOutcome(failure, how)

\* for code in generated_codes: result = await self._validate_single_code(code)
ValidateBegin ==
    /\ vpc = "next"
    /\ vidx <= Len(generated_codes)
    /\ current_code' = generated_codes[vidx].code
    /\ retry_count' = 0
    /\ vpc' = "loop"
    /\ UNCHANGED <<lvars, pvars, wvars>>
    /\ UNCHANGED <<max_retries, generated_codes, vidx, results, final_codes,
                   fix_log, working, exit_by>>
    /\ UNCHANGED <<uvars, rvars>>

\* one iteration of the while loop, lines 70-127
ValidateIteration ==
    /\ vpc = "loop"
    /\ LoopGuard(retry_count, max_retries)
    /\ LET code == generated_codes[vidx]
           syntax == _check_syntax(current_code)
           imports == _check_imports(current_code)
       IN  IF ~syntax[1]
           THEN \E response \in FixResponses :
                    FixOrFail(response, SyntaxFailure(code, syntax[2]), "fix_failed")
           ELSE IF ~imports[1]
           THEN \E response \in FixResponses :
                    FixOrFail(response, ImportFailure(code, imports[2]), "fix_failed")
           ELSE /\ ReturnOutcome(ValidOutcome(code, current_code,
                                              _static_analysis(current_code)),
                                 "passed")
                /\ UNCHANGED fix_log
    /\ UNCHANGED <<lvars, pvars, wvars>>
    /\ UNCHANGED <<max_retries, generated_codes, final_codes>>
    /\ UNCHANGED <<uvars, rvars>>

\* the loop condition fails, lines 129-135
ValidateExhausted ==
    /\ vpc = "loop"
    /\ ~LoopGuard(retry_count, max_retries)
    /\ ReturnOutcome(BudgetExhausted(generated_codes[vidx]), "exhausted")
    /\ UNCHANGED <<lvars, pvars, wvars>>
    /\ UNCHANGED <<max_retries, generated_codes, final_codes, fix_log>>
    /\ UNCHANGED <<uvars, rvars>>

\* ValidatorAgent.run returns results
ValidatorReturn ==
    /\ vpc = "next"
    /\ vidx > Len(generated_codes)
    /\ vpc' = "returned"
    /\ UNCHANGED <<lvars, pvars, wvars>>
    /\ UNCHANGED <<max_retries, generated_codes, vidx, current_code, retry_count,
                   results, final_codes, fix_log, working, exit_by>>
    /\ UNCHANGED <<uvars, rvars>>

---------------------------------------------------------------------------
(* ThesisToCodeWorkflow._apply_fixes *)

\* result_map = {r.task_id: r for r in results}: the last result of an id wins
ResultMapGet(rs, task_id) ==
    LET hits == {i \in 1..Len(rs) : rs[i].task_id = task_id}
    IN  IF hits = {} THEN None
        ELSE Some(rs[CHOOSE i \in hits : \A j \in hits : j <= i])

\* mutant of FixedArtifact: the artifact is kept whatever the outcome
FixedArtifact_IgnoresFix(code, rs) == code

\* the body of the for loop, lines 290-301
FixedArtifact(code, rs) ==
    LET result == ResultMapGet(rs, code.task_id)
    IN  IF result # None /\ result[1].fixed_code # None
                         /\ Truthy(result[1].fixed_code[1])
        THEN [code EXCEPT !.code = result[1].fixed_code[1]]
        ELSE code

_apply_fixes(codes, rs) == [i \in 1..Len(codes) |-> FixedArtifact(codes[i], rs)]

ApplyFixes ==
    /\ vpc = "returned"
    /\ final_codes' = _apply_fixes(generated_codes, results)
    /\ vpc' = "applied"
    /\ UNCHANGED <<lvars, pvars, wvars>>
    /\ UNCHANGED <<max_retries, generated_codes, vidx, current_code, retry_count,
                   results, fix_log, working, exit_by>>
    /\ UNCHANGED <<uvars, rvars>>


---------------------------------------------------------------------------
(* LLM.chat (app/core/llm.py) *)

\* largest retry budget of LLM.chat explored (0 .. MaxChatRetries)
MaxChatRetries == 4

\* the default of the max_retries parameter of LLM.chat
DefaultChatRetries == 3

RECURSIVE Pow2(_)
Pow2(n) == IF n = 0 THEN 1 ELSE 2 * Pow2(n - 1)

\* mutant of BackoffDelay: linear instead of exponential
BackoffDelay_Linear(k) == k + 1

\* asyncio.sleep(2 ** attempt)
BackoffDelay(k) == Pow2(k)

\* mutant of SleepsAfterFailure: waits after the last failed attempt too
SleepsAfterFailure_Always(k, budget) == TRUE

\* `if attempt < max_retries - 1` : wait and go on, else re-raise
SleepsAfterFailure(k, budget) == k < budget - 1

\* the arguments a caller may pass; max_tokens 0 stands for None
ChatArgs ==
    [tools : BOOLEAN, tool_choice : {"None", "auto"}, max_tokens : {0, 1},
     max_retries : 0..MaxChatRetries]

\* kwargs, lines 58-69: the keys sent to the service
ChatKwargs(args) ==
    {"model", "messages", "temperature"}
    \cup (IF args.tools THEN {"tools", "tool_choice"} ELSE {})
    \cup (IF args.max_tokens # 0 THEN {"max_tokens"} ELSE {})

\* what one client.chat.completions.create call may do
ServiceOutcomes(args) ==
    {"error", "text"} \cup (IF "tools" \in ChatKwargs(args) THEN {"tool_call"} ELSE {})

\* one pass of the body of the for loop, lines 72-81
ChatAttempt ==
    /\ chat_pc = "try"
    /\ attempt < chat_args.max_retries
    /\ \E outcome \in ServiceOutcomes(chat_args) :
        /\ service_log' = Append(service_log, outcome)
        /\ IF outcome # "error"
           THEN /\ chat_pc' = "returned"
                /\ chat_result' = outcome
           ELSE IF SleepsAfterFailure(attempt, chat_args.max_retries)
           THEN /\ chat_pc' = "sleep"
                /\ UNCHANGED chat_result
           ELSE /\ chat_pc' = "raised"
                /\ chat_result' = "error"
    /\ UNCHANGED <<chat_args, attempt, sleep_log>>
    /\ UNCHANGED <<vvars, pvars, wvars>>
    /\ UNCHANGED <<uvars, rvars>>

\* await asyncio.sleep(2 ** attempt), then the next value of the loop variable
ChatBackoff ==
    /\ chat_pc = "sleep"
    /\ sleep_log' = Append(sleep_log, BackoffDelay(attempt))
    /\ attempt' = attempt + 1
    /\ chat_pc' = "try"
    /\ UNCHANGED <<chat_args, chat_result, service_log>>
    /\ UNCHANGED <<vvars, pvars, wvars>>
    /\ UNCHANGED <<uvars, rvars>>

\* range(max_retries) is used up without a return or a raise: the function
\* ends and gives None
ChatFallThrough ==
    /\ chat_pc = "try"
    /\ ~(attempt < chat_args.max_retries)
    /\ chat_pc' = "returned"
    /\ chat_result' = "None"
    /\ UNCHANGED <<chat_args, attempt, service_log, sleep_log>>
    /\ UNCHANGED <<vvars, pvars, wvars>>
    /\ UNCHANGED <<uvars, rvars>>


---------------------------------------------------------------------------
(* ParserAgent (app/agents/parser_agent.py) *)

\* the default of the max_wait parameter of _poll_task_result
PollMaxWait == 300

\* the default of the interval parameter of _poll_task_result
PollInterval == 5

\* longest time, in seconds, one status check takes
MaxLatency == 1

\* the argument of ParserAgent.run: a URL, a path that exists, a path that
\* does not
PdfPaths == {"url", "local", "missing"}

\* Optional[str] results of the tiers: None, the empty string, some text;
\* "exc" is an exception on its way up the call stack
MdNone == "None"
MdValues == {MdNone, "", "md"}
MdTruthy(v) == v \notin {MdNone, ""}

\* mutant of CatchAll: no try/except
CatchAll_Missing(v) == v

\* try: ... except Exception: return None
CatchAll(v) == IF v = "exc" THEN MdNone ELSE v

\* ParsedContent: raw_markdown and whether the structured fields were filled
ParsedContent(raw, structured) == [raw_markdown |-> raw, structured |-> structured]
NoParsedContent == ParsedContent("exc", FALSE)

\* mutant of PollGuard: one check too many
PollGuard_Inclusive(t, start) == t - start <= PollMaxWait

\* while time.time() - start_time < max_wait
PollGuard(t, start) == t - start < PollMaxWait

\* await asyncio.sleep(interval)
PollSleepTime == PollInterval

\* mutant of AfterUpload: no local fallback
AfterUpload_NoFallback(v) == "converted"

\* lines 71-77: `if markdown: return markdown`, else the local fallback
AfterUpload(v) == IF MdTruthy(v) THEN "converted" ELSE "local"

\* mutant of ReturnRemote: a URL whose submission gave no text falls back
\* to the local tier like a local file
ReturnRemote_UrlFallsBack(v) ==
    /\ upload_result' = v
    /\ IF v = "exc"
       THEN ppc' = "raised" /\ markdown_content' = v
       ELSE /\ ppc' = AfterUpload(v)
            /\ markdown_content' = IF MdTruthy(v) THEN v ELSE markdown_content

\* a remote tier (_submit_url_task or _upload_and_parse with what it called)
\* has returned value v to _convert_pdf_to_markdown
ReturnRemote(v) ==
    IF pdf_path = "url"
    THEN /\ markdown_content' = v
         /\ ppc' = IF v = "exc" THEN "raised" ELSE "converted"
         /\ UNCHANGED upload_result
    ELSE /\ upload_result' = v
         /\ IF v = "exc"
            THEN ppc' = "raised" /\ markdown_content' = v
            ELSE /\ ppc' = AfterUpload(v)
                 /\ markdown_content' = IF MdTruthy(v) THEN v ELSE markdown_content

\* _poll_task_result is called: start_time = time.time()
StartPoll ==
    /\ ppc' = "poll"
    /\ start_time' = now
    /\ UNCHANGED <<now, markdown_content, upload_result, poll_exit, last_check,
                   slept, completed_seen, last_status>>

\* _convert_pdf_to_markdown up to its first await, lines 61-71
ConvertPdfToMarkdown ==
    /\ ppc = "convert"
    /\ IF pdf_path = "url" THEN ppc' = "submit" /\ UNCHANGED markdown_content
       ELSE IF pdf_path = "missing"
       THEN ppc' = "converted" /\ markdown_content' = MdNone
       ELSE ppc' = "upload" /\ UNCHANGED markdown_content
    /\ UNCHANGED <<pdf_path, now, start_time, parsed_content, tier_log,
                   upload_result, poll_exit, last_check, slept, completed_seen, last_status>>
    /\ UNCHANGED <<vvars, lvars, wvars>>
    /\ UNCHANGED <<uvars, rvars>>

\* what the POST of _submit_url_task may do
SubmitOutcomes == {"raise", "http_error", "no_task_id", "task_id"}

\* _submit_url_task, lines 79-110
SubmitUrlTask ==
    /\ ppc = "submit"
    /\ \E outcome \in SubmitOutcomes :
        IF outcome = "task_id"
        THEN /\ tier_log' = tier_log \o <<"submit", "poll">>
             /\ StartPoll
        ELSE /\ tier_log' = Append(tier_log, "submit")
             /\ ReturnRemote(CatchAll(IF outcome = "raise" THEN "exc" ELSE MdNone))
             /\ UNCHANGED <<now, start_time, poll_exit, last_check, slept,
                            completed_seen, last_status>>
    /\ UNCHANGED <<pdf_path, parsed_content>>
    /\ UNCHANGED <<vvars, lvars, wvars>>
    /\ UNCHANGED <<uvars, rvars>>

\* what opening the file and the upload POST may do
UploadOutcomes == {"raise", "http_error", "code_error", "nothing", "task_id", "file_url"}

\* _upload_and_parse, lines 112-160
UploadAndParse ==
    /\ ppc = "upload"
    /\ \E outcome \in UploadOutcomes :
        IF outcome = "task_id"
        THEN /\ tier_log' = tier_log \o <<"upload", "poll">>
             /\ StartPoll
        ELSE IF outcome = "file_url"
        THEN /\ tier_log' = Append(tier_log, "upload")
             /\ ppc' = "submit"
             /\ UNCHANGED <<now, start_time, markdown_content, upload_result,
                            poll_exit, last_check, slept, completed_seen, last_status>>
        ELSE /\ tier_log' = Append(tier_log, "upload")
             /\ ReturnRemote(CatchAll(IF outcome = "raise" THEN "exc" ELSE MdNone))
             /\ UNCHANGED <<now, start_time, poll_exit, last_check, slept,
                            completed_seen, last_status>>
    /\ UNCHANGED <<pdf_path, parsed_content>>
    /\ UNCHANGED <<vvars, lvars, wvars>>
    /\ UNCHANGED <<uvars, rvars>>

\* what one status check may give: the GET or the JSON decoding raises, the
\* HTTP status is not 200, or a status arrives; a completed task carries its
\* text inline or behind markdown_url, whose GET may raise
PollOutcomes ==
    {[kind |-> "raise", text |-> ""], [kind |-> "http_error", text |-> ""],
     [kind |-> "processing", text |-> ""], [kind |-> "failed", text |-> ""],
     [kind |-> "completed_fetch_raises", text |-> ""]}
    \cup [kind : {"completed_inline", "completed_fetched"}, text : {"", "md"}]

\* how _poll_task_result ended and what it returned
PollExit(how, v) == [how |-> how, value |-> v]
NoPollExit == PollExit("unset", MdNone)

\* _poll_task_result returns v
PollReturn(v, how) ==
    /\ poll_exit' = PollExit(how, CatchAll(v))
    /\ ReturnRemote(CatchAll(v))

\* mutant of PollDecision: a status check that raises or answers with an
\* HTTP status other than 200 ends the polling
PollDecision_ErrorsTerminal(kind) ==
    IF kind \in {"completed_inline", "completed_fetched"} THEN "return_text"
    ELSE IF kind \in {"failed", "raise", "http_error"} THEN "return_none"
    ELSE "sleep"

\* what the loop does with a status check, lines 204-230: it returns the
\* text of a completed task, returns None for a failed one, and otherwise
\* sleeps (a GET of markdown_url that raises is caught like any exception)
PollDecision(kind) ==
    IF kind \in {"completed_inline", "completed_fetched"} THEN "return_text"
    ELSE IF kind = "failed" THEN "return_none"
    ELSE "sleep"

\* one status check, lines 203-230 up to the sleep
PollCheck ==
    /\ ppc = "poll"
    /\ PollGuard(now, start_time)
    /\ last_check' = now - start_time
    /\ slept' = 0
    /\ \E d \in 0..MaxLatency : now' = now + d
    /\ \E outcome \in PollOutcomes :
        /\ completed_seen' =
              (completed_seen \/ outcome.kind \in {"completed_inline", "completed_fetched",
                                                   "completed_fetch_raises"})
        /\ last_status' = outcome.kind
        /\ IF PollDecision(outcome.kind) = "return_text"
           THEN PollReturn(outcome.text, "completed")
           ELSE IF PollDecision(outcome.kind) = "return_none"
           THEN PollReturn(MdNone, "failed")
           ELSE /\ ppc' = "poll_sleep"
                /\ UNCHANGED <<markdown_content, upload_result, poll_exit>>
    /\ UNCHANGED <<pdf_path, start_time, parsed_content, tier_log>>
    /\ UNCHANGED <<vvars, lvars, wvars>>
    /\ UNCHANGED <<uvars, rvars>>

\* await asyncio.sleep(interval), lines 207, 226, 230
PollSleep ==
    /\ ppc = "poll_sleep"
    /\ now' = now + PollSleepTime
    /\ slept' = slept + PollSleepTime
    /\ ppc' = "poll"
    /\ UNCHANGED <<pdf_path, start_time, markdown_content, parsed_content, tier_log,
                   upload_result, poll_exit, last_check, completed_seen, last_status>>
    /\ UNCHANGED <<vvars, lvars, wvars>>
    /\ UNCHANGED <<uvars, rvars>>

\* the loop condition fails, lines 232-233
PollTimeout ==
    /\ ppc = "poll"
    /\ ~PollGuard(now, start_time)
    /\ PollReturn(MdNone, "timeout")
    /\ UNCHANGED <<pdf_path, now, start_time, parsed_content, tier_log, last_check,
                   slept, completed_seen, last_status>>
    /\ UNCHANGED <<vvars, lvars, wvars>>
    /\ UNCHANGED <<uvars, rvars>>

\* what PyMuPDF may do: it is missing or raises, or it gives the pages' text,
\* which is empty when no page has text
LocalOutcomes == {"raise", "", "md"}

\* _local_pdf_parse, lines 162-188
LocalPdfParse ==
    /\ ppc = "local"
    /\ tier_log' = Append(tier_log, "local")
    /\ \E outcome \in LocalOutcomes :
        LET v == CatchAll(IF outcome = "raise" THEN "exc" ELSE outcome)
        IN  /\ markdown_content' = v
            /\ ppc' = IF v = "exc" THEN "raised" ELSE "converted"
    /\ UNCHANGED <<pdf_path, now, start_time, parsed_content, upload_result,
                   poll_exit, last_check, slept, completed_seen, last_status>>
    /\ UNCHANGED <<vvars, lvars, wvars>>
    /\ UNCHANGED <<uvars, rvars>>

\* ParserAgent.run after the conversion, lines 46-51
AfterConversion ==
    /\ ppc = "converted"
    /\ IF ~MdTruthy(markdown_content)
       THEN /\ parsed_content' = ParsedContent("", FALSE)
            /\ ppc' = "done"
       ELSE /\ ppc' = "parse"
            /\ UNCHANGED parsed_content
    /\ UNCHANGED <<pdf_path, now, start_time, markdown_content, tier_log,
                   upload_result, poll_exit, last_check, slept, completed_seen, last_status>>
    /\ UNCHANGED <<vvars, lvars, wvars>>
    /\ UNCHANGED <<uvars, rvars>>

\* _parse_markdown_structure, lines 235-277: the model call and the JSON
\* decoding succeed, or the except branch keeps the raw text only
ParseMarkdownStructure ==
    /\ ppc = "parse"
    /\ \E ok \in BOOLEAN : parsed_content' = ParsedContent(markdown_content, ok)
    /\ ppc' = "done"
    /\ UNCHANGED <<pdf_path, now, start_time, markdown_content, tier_log,
                   upload_result, poll_exit, last_check, slept, completed_seen, last_status>>
    /\ UNCHANGED <<vvars, lvars, wvars>>
    /\ UNCHANGED <<uvars, rvars>>

\* ParserAgent not in use
InitParserIdle ==
    /\ pdf_path = "missing"
    /\ ppc = "idle"
    /\ now = 0
    /\ start_time = 0
    /\ markdown_content = MdNone
    /\ parsed_content = NoParsedContent
    /\ tier_log = <<>>
    /\ upload_result = "unset"
    /\ poll_exit = NoPollExit
    /\ last_check = -1
    /\ slept = 0
    /\ completed_seen = FALSE
    /\ last_status = "none"

---------------------------------------------------------------------------
(* ThesisToCodeWorkflow.run (app/core/workflow.py) *)

\* the suffix of md_path and what it names: a URL, a file that exists, a
\* file that does not
MdPaths == [ext : {".pdf", ".md"}, where : PdfPaths]

\* what ParserAgent.run returns for an argument of each kind: the empty
\* document, or, when a tier gave text, that text with or without the
\* structured fields
ParserRunResults(where) ==
    IF where = "missing"
    THEN {ParsedContent("", FALSE)}
    ELSE {ParsedContent("", FALSE)} \cup {ParsedContent("md", b) : b \in BOOLEAN}

\* what _parse_markdown_file returns for a file that exists: its text, empty
\* or not, with or without the structured fields
MarkdownFileResults == {ParsedContent(t, b) : t \in {"", "md"}, b \in BOOLEAN}

\* shutil.copy2 and open succeed on an existing local file only
Readable(path) == path.where = "local"

\* the task id of the main program
MainId == "main"

\* source text the code model produces in a run of the whole workflow
CoderTexts ==
    {BadText(1),
     [syn |-> TRUE, errline |-> 0, empty |-> FALSE,
      has_entry |-> TRUE, has_try |-> FALSE, undocumented |-> FALSE]}

\* run raises from step
Abort(step) ==
    /\ wpc' = "aborted"
    /\ raised_in' = step

\* Phase 1, line 89: _load_input_content, lines 164-186
LoadInputContent ==
    /\ wpc = "load"
    /\ IF md_path.ext = ".pdf"
       THEN /\ pdf_path' = md_path.where
            /\ parsed_content' \in ParserRunResults(md_path.where)
            /\ wpc' = "save_input"
            /\ UNCHANGED raised_in
       ELSE IF Readable(md_path)
       THEN /\ parsed_content' \in MarkdownFileResults
            /\ wpc' = "save_input"
            /\ UNCHANGED <<pdf_path, raised_in>>
       ELSE /\ Abort("load")
            /\ UNCHANGED <<pdf_path, parsed_content>>
    /\ UNCHANGED <<md_path, task_data, code_tasks, project_files, readme>>
    /\ UNCHANGED <<ppc, now, start_time, markdown_content, tier_log, upload_result,
                   poll_exit, last_check, slept, completed_seen, last_status>>
    /\ UNCHANGED <<vvars, lvars>>
    /\ UNCHANGED <<uvars, rvars>>

\* lines 92-100: the input is copied into the work directory (data_dir is
\* not given, so Phase 2 finds no data files)
SaveInput ==
    /\ wpc = "save_input"
    /\ IF Readable(md_path)
       THEN wpc' = "analyze" /\ UNCHANGED raised_in
       ELSE Abort("save_input")
    /\ UNCHANGED <<md_path, task_data, code_tasks, project_files, readme>>
    /\ UNCHANGED <<vvars, lvars, pvars>>
    /\ UNCHANGED <<uvars, rvars>>

\* most task descriptors in the decomposition answer
MaxTaskData == 2

\* the priorities a task descriptor may carry
Priorities == {0, 1}

\* the file names a tool payload may carry
FileNames == {"analysis.py", "main.py"}

\* task descriptors: the priority is optional
TaskDescriptors(priorities, kinds) == [priority : priorities, task_type : kinds]

\* the values of CodeTaskType the model distinguishes
CodeTaskTypes == {"data_analysis", "visualization", "utility"}

\* the "task_type" of a descriptor: a known name or anything else (an absent
\* key reads as "")
RawTaskTypes == {"data_analysis", "bogus"}

\* _parse_task_type, lines 270-282
_parse_task_type(type_str) ==
    IF type_str \in CodeTaskTypes THEN type_str ELSE "utility"
AnyPriority == {None} \cup {Some(p) : p \in Priorities}

\* task_data.get("priority", i), line 224: the 0-based position in the list
DefaultPriority(i) == i

\* _generate_code_tasks, lines 211-227: a CodeTask per descriptor; ids[k] is
\* the "task_" + uuid.uuid4().hex[:8] drawn for descriptor k, and task_pos
\* records the descriptor's 0-based position
CodeTasksFrom(data, ids) ==
    [k \in 1..Len(data) |->
        [task_id |-> ids[k],
         task_type |-> _parse_task_type(data[k].task_type),
         priority |-> IF data[k].priority = None
                      THEN DefaultPriority(k - 1)
                      ELSE data[k].priority[1],
         task_pos |-> k - 1]]

\* Phase 3, line 122: AnalyzerAgent.run; each task gets
\* "task_" + uuid.uuid4().hex[:8], and no step compares the ids; a failed
\* decomposition call gives no tasks
AnalyzerRun ==
    /\ wpc = "analyze"
    /\ \/ code_tasks' = <<>>
       \/ \E ids \in [1..Len(task_data) -> TaskIds] :
             code_tasks' = CodeTasksFrom(task_data, ids)
    /\ wpc' = "code"
    /\ UNCHANGED <<md_path, task_data, project_files, readme, raised_in>>
    /\ UNCHANGED <<vvars, lvars, pvars>>
    /\ UNCHANGED <<uvars, rvars>>

\* the position of the first task with the smallest priority
FirstLeast(ts) ==
    CHOOSE i \in DOMAIN ts :
        /\ \A j \in DOMAIN ts : ts[i].priority <= ts[j].priority
        /\ \A j \in 1..(i - 1) : ts[j].priority # ts[i].priority

Without(ts, i) == SubSeq(ts, 1, i - 1) \o SubSeq(ts, i + 1, Len(ts))

\* mutant of SortedByPriority: the tasks as extracted
SortedByPriority_Unsorted(ts) == ts

\* sorted(analysis_result.code_tasks, key=lambda x: x.priority), line 108:
\* ascending, tasks of equal priority in their order in the list
RECURSIVE SortedByPriority(_)
SortedByPriority(ts) ==
    IF ts = <<>> THEN <<>>
    ELSE <<ts[FirstLeast(ts)]>> \o SortedByPriority(Without(ts, FirstLeast(ts)))

\* the GeneratedCode of a task: the id of the task, the text and the file
\* name of the model's answer; task_pos records the task it came from
TaskArtifact(task, text, name) ==
    [task_id |-> task.task_id, code |-> text, file_name |-> name,
     task_pos |-> task.task_pos]

\* the artifacts CoderAgent.run may return for the tasks ts: for each task, in
\* order, an artifact with the task's id or nothing
RECURSIVE TaskArtifacts(_)
TaskArtifacts(ts) ==
    IF ts = <<>> THEN {<<>>}
    ELSE LET rest == TaskArtifacts(Tail(ts))
         IN  rest \cup {<<TaskArtifact(Head(ts), t, n)>> \o r :
                            t \in CoderTexts, n \in FileNames, r \in rest}

\* the main program: task id "main", file name "main.py"
MainProgram(text) ==
    [task_id |-> MainId, code |-> text, file_name |-> "main.py", task_pos |-> -1]

\* _generate_main_program: nothing for no artifacts; else main.py or nothing
WithMainProgram(codes) ==
    IF codes = <<>> THEN {codes}
    ELSE {codes} \cup {Append(codes, MainProgram(t)) : t \in CoderTexts}

\* Phases 4 and 5 up to the validator's loop, lines 131-137
CoderRun ==
    /\ wpc = "code"
    /\ \E codes \in TaskArtifacts(SortedByPriority(code_tasks)) :
          generated_codes' \in WithMainProgram(codes)
    /\ wpc' = "validate"
    /\ vpc' = "next"
    /\ UNCHANGED <<max_retries, vidx, current_code, retry_count, results,
                   final_codes, fix_log, working, exit_by>>
    /\ UNCHANGED <<md_path, task_data, code_tasks, project_files, readme, raised_in>>
    /\ UNCHANGED <<lvars, pvars>>
    /\ UNCHANGED <<uvars, rvars>>

\* the outcomes _validate_single_code may return for an artifact when the
\* budget is 2 or more and a fix, if accepted, is one of fixes: text that
\* parses is valid as it is; other text is repaired or its fix fails
ValidatorOutcomes(code, fixes) ==
    IF _check_syntax(code.code)[1]
    THEN {ValidOutcome(code, code.code, _static_analysis(code.code))}
    ELSE {SyntaxFailure(code, _check_syntax(code.code)[2])}
         \cup {ValidOutcome(code, t, _static_analysis(t)) : t \in fixes}

\* the lists ValidatorAgent.run may return: an outcome per artifact, in order
RECURSIVE OutcomeLists(_, _)
OutcomeLists(codes, fixes) ==
    IF codes = <<>> THEN {<<>>}
    ELSE {<<r>> \o rest : r \in ValidatorOutcomes(Head(codes), fixes),
                          rest \in OutcomeLists(Tail(codes), fixes)}

\* the repaired text in a run that follows the artifacts to the bundle
AssemblyFixes ==
    {[syn |-> TRUE, errline |-> 0, empty |-> FALSE,
      has_entry |-> TRUE, has_try |-> TRUE, undocumented |-> FALSE]}

\* Phase 5, line 137: ValidatorAgent.run as a whole, one outcome per artifact
ValidatorRun ==
    /\ wpc = "validate"
    /\ vpc = "next"
    /\ max_retries >= 2
    /\ results' \in OutcomeLists(generated_codes, AssemblyFixes)
    /\ vidx' = Len(generated_codes) + 1
    /\ vpc' = "returned"
    /\ UNCHANGED <<max_retries, generated_codes, current_code, retry_count,
                   final_codes, fix_log, working, exit_by>>
    /\ UNCHANGED <<lvars, pvars, wvars>>
    /\ UNCHANGED <<uvars, rvars>>

\* mutant of DictSet: a key that is present keeps its first value
DictSet_KeepFirst(items, key, value) ==
    IF \E i \in DOMAIN items : items[i].key = key
    THEN items
    ELSE Append(items, [key |-> key, value |-> value])

\* a dict as the sequence of its items in insertion order: assigning to a
\* key that is present replaces its value and keeps its place
DictSet(items, key, value) ==
    IF \E i \in DOMAIN items : items[i].key = key
    THEN [i \in DOMAIN items |->
             IF items[i].key = key THEN [key |-> key, value |-> value] ELSE items[i]]
    ELSE Append(items, [key |-> key, value |-> value])

\* files = {code.file_name: code.code for code in codes}, line 314
RECURSIVE FilesFrom(_, _)
FilesFrom(codes, items) ==
    IF codes = <<>> THEN items
    ELSE FilesFrom(Tail(codes), DictSet(items, Head(codes).file_name, Head(codes).code))

Files(codes) == FilesFrom(codes, <<>>)

\* _generate_readme, lines 368-392: a line per artifact, in the order of codes
ReadmeListing(codes) ==
    [i \in DOMAIN codes |->
        [file_name |-> codes[i].file_name, task_pos |-> codes[i].task_pos]]

\* Phase 6, lines 146-158: the bundle is built, saved and returned
GenerateProject ==
    /\ wpc = "validate"
    /\ vpc = "applied"
    /\ project_files' = Files(final_codes)
    /\ readme' = ReadmeListing(final_codes)
    /\ wpc' = "returned"
    /\ UNCHANGED <<md_path, task_data, code_tasks, raised_in>>
    /\ UNCHANGED <<vvars, lvars, pvars>>
    /\ UNCHANGED <<uvars, rvars>>

---------------------------------------------------------------------------
(* Run calls on one ThesisToCodeWorkflow instance (app/core/workflow.py,
   lines 59-162). asyncio executes one coroutine at a time and switches to
   another only where the executing one awaits a network call. *)

\* two run calls on the controller
Runs == {"run_a", "run_b"}

NoRun == "none"

\* f"{datetime.now()...}_{uuid.uuid4().hex[:6]}", line 77: the two calls are
\* taken to draw different ids
RunId(r) == IF r = "run_a" THEN "id_a" ELSE "id_b"

\* create_work_dir, file_utils.py lines 149-154: the directory
\* os.path.join(base_dir, task_id), created if it is not there
create_work_dir(task_id) == IF task_id = "id_a" THEN "output/id_a" ELSE "output/id_b"

\* the md_path of a run call: a Markdown file that exists, or one that does not
RunInputs == {"local", "missing"}

\* the file names an artifact may carry: a plain name, the name of a file the
\* bundle writes itself, a name in a subdirectory
RunFileNames == {"main.py", "requirements.txt", "pkg/util.py"}

\* most artifacts of a run call
MaxRunFiles == 2

\* the artifacts the synthesis stage may return
RunArtifacts == [file_name : RunFileNames, code : {"code"}]

\* the lists of artifacts CoderAgent.run may return: here their file names
\* differ (equal names meet in the dict of _generate_project_output)
RunArtifactLists ==
    {codes \in SeqsUpTo(RunArtifacts, MaxRunFiles) :
        \A i, j \in DOMAIN codes : i # j => codes[i].file_name # codes[j].file_name}

\* open(os.path.join(work_dir, file_name), 'w') raises when the directory
\* part of the joined path does not exist; nothing creates "pkg"
InSubdirectory(file_name) == file_name = "pkg/util.py"

\* save_code_file, file_utils.py lines 157-163, on a name it can open: the
\* file of that name in work_dir holds content
save_code_file(files, work_dir, file_name, content) ==
    {f \in files : ~(f.dir = work_dir /\ f.name = file_name)}
        \cup {[dir |-> work_dir, name |-> file_name, text |-> content]}

\* lines 442-443 of _save_project_files: the items of output.files are saved
\* in order, up to the first name that cannot be opened
RECURSIVE SaveFiles(_, _, _)
SaveFiles(files, work_dir, items) ==
    IF items = <<>> THEN [files |-> files, raised |-> FALSE]
    ELSE IF InSubdirectory(Head(items).key) THEN [files |-> files, raised |-> TRUE]
    ELSE SaveFiles(save_code_file(files, work_dir, Head(items).key, Head(items).value),
                   work_dir, Tail(items))

\* lines 445-453 of _save_project_files
SaveProjectDocuments(files, work_dir) ==
    save_code_file(
        save_code_file(
            save_code_file(files, work_dir, "requirements.txt", "requirements"),
            work_dir, "README.md", "readme"),
        work_dir, "RUN_INSTRUCTIONS.md", "run_instructions")

\* a run call that has not started
IdleRun(input) ==
    [pc |-> "idle",
     input |-> input,
     task_id |-> "",          \* history: the id this call drew
     stages |-> <<>>,         \* history: the stages this call started, in order
     has_tasks |-> FALSE,     \* analysis_result.code_tasks is not empty
     codes |-> <<>>,          \* generated_codes, then final_codes
     project_output |-> None,
     wrote |-> {}]            \* history: the directories this call wrote to

\* the run call r starts the stage
Started(r, stage) == [runs[r] EXCEPT !.stages = Append(@, stage)]

\* a network call begins: the coroutine is suspended at pc
Awaiting(run, pc) == [run EXCEPT !.pc = pc]

\* lines 76-82: the id and the working directory are stored on the controller
RunStart(r) ==
    /\ executing = NoRun
    /\ runs[r].pc = "idle"
    /\ self_task_id' = RunId(r)
    /\ self_work_dir' = create_work_dir(RunId(r))
    /\ runs' = [runs EXCEPT ![r] = [@ EXCEPT !.pc = "load", !.task_id = RunId(r)]]
    /\ executing' = r
    /\ UNCHANGED <<disk, signalled>>
    /\ UNCHANGED <<vvars, lvars, pvars, wvars, uvars>>

\* the except clause of run, lines 160-162: the exception goes to the caller
RunRaises(r) ==
    /\ runs' = [runs EXCEPT ![r] = [@ EXCEPT !.pc = "raised"]]
    /\ executing' = NoRun

\* Phase 1, line 89: _parse_markdown_file opens the file, lines 199-200, and
\* _parse_markdown_content asks the model
RunLoadInput(r) ==
    /\ executing = r
    /\ runs[r].pc = "load"
    /\ IF runs[r].input = "missing"
       THEN /\ runs' = [runs EXCEPT ![r] = [Started(r, "ingestion") EXCEPT !.pc = "raised"]]
            /\ executing' = NoRun
       ELSE /\ runs' = [runs EXCEPT ![r] =
                           Awaiting(Started(r, "ingestion"), "await_load")]
            /\ executing' = NoRun
    /\ UNCHANGED <<self_task_id, self_work_dir, disk, signalled>>
    /\ UNCHANGED <<vvars, lvars, pvars, wvars, uvars>>

\* the answer arrives; lines 92-100: the input is copied to thesis.md in
\* self.work_dir (data_dir is not given, so Phase 2 copies nothing)
RunSaveInput(r) ==
    /\ executing = NoRun
    /\ runs[r].pc = "await_load"
    /\ disk' = save_code_file(disk, self_work_dir, "thesis.md", "thesis")
    /\ runs' = [runs EXCEPT ![r] =
                   [@ EXCEPT !.pc = "analyze", !.wrote = @ \cup {self_work_dir}]]
    /\ executing' = r
    /\ UNCHANGED <<self_task_id, self_work_dir, signalled>>
    /\ UNCHANGED <<vvars, lvars, pvars, wvars, uvars>>

\* mutant of RunAnalyze: Phase 4 follows Phase 1
RunAnalyze_Skipped(r) ==
    /\ executing = r
    /\ runs[r].pc = "analyze"
    /\ runs' = [runs EXCEPT ![r] = [@ EXCEPT !.pc = "code", !.has_tasks = TRUE]]
    /\ UNCHANGED <<self_task_id, self_work_dir, executing, disk, signalled>>
    /\ UNCHANGED <<vvars, lvars, pvars, wvars, uvars>>

\* Phase 3, line 122: AnalyzerAgent.run asks the model
RunAnalyze(r) ==
    /\ executing = r
    /\ runs[r].pc = "analyze"
    /\ runs' = [runs EXCEPT ![r] =
                   Awaiting(Started(r, "analysis"), "await_analyze")]
    /\ executing' = NoRun
    /\ UNCHANGED <<self_task_id, self_work_dir, disk, signalled>>
    /\ UNCHANGED <<vvars, lvars, pvars, wvars, uvars>>

\* AnalyzerAgent.run raises out of the AnalysisResult constructor, or it
\* returns and _save_analysis_result, lines 252-279, writes
\* analysis_result.json to self.work_dir
RunAnalyzeReturns(r) ==
    /\ executing = NoRun
    /\ runs[r].pc = "await_analyze"
    /\ \/ /\ RunRaises(r)
          /\ UNCHANGED disk
       \/ /\ \E has_tasks \in BOOLEAN :
                runs' = [runs EXCEPT ![r] =
                            [@ EXCEPT !.pc = "code",
                                      !.has_tasks = has_tasks,
                                      !.wrote = @ \cup {self_work_dir}]]
          /\ disk' = save_code_file(disk, self_work_dir, "analysis_result.json", "analysis")
          /\ executing' = r
    /\ UNCHANGED <<self_task_id, self_work_dir, signalled>>
    /\ UNCHANGED <<vvars, lvars, pvars, wvars, uvars>>

\* Phase 4, line 131: CoderAgent.run asks the model once per task; with no
\* task it returns [] without a request
RunCode(r) ==
    /\ executing = r
    /\ runs[r].pc = "code"
    /\ IF runs[r].has_tasks
       THEN /\ runs' = [runs EXCEPT ![r] =
                           Awaiting(Started(r, "synthesis"), "await_code")]
            /\ executing' = NoRun
       ELSE /\ runs' = [runs EXCEPT ![r] = [Started(r, "synthesis") EXCEPT !.pc = "validate"]]
            /\ UNCHANGED executing
    /\ UNCHANGED <<self_task_id, self_work_dir, disk, signalled>>
    /\ UNCHANGED <<vvars, lvars, pvars, wvars, uvars>>

\* CoderAgent.run returns the artifacts, with the file names of the answers
RunCodeReturns(r) ==
    /\ executing = NoRun
    /\ runs[r].pc = "await_code"
    /\ \E codes \in RunArtifactLists :
          runs' = [runs EXCEPT ![r] = [@ EXCEPT !.pc = "validate", !.codes = codes]]
    /\ executing' = r
    /\ UNCHANGED <<self_task_id, self_work_dir, disk, signalled>>
    /\ UNCHANGED <<vvars, lvars, pvars, wvars, uvars>>

\* Phase 5, lines 137-140: ValidatorAgent.run asks the model only to repair
\* an artifact; _apply_fixes keeps every file name
RunValidate(r) ==
    /\ executing = r
    /\ runs[r].pc = "validate"
    /\ \/ /\ runs' = [runs EXCEPT ![r] = [Started(r, "validation") EXCEPT !.pc = "assemble"]]
          /\ UNCHANGED executing
       \/ /\ runs[r].codes # <<>>
          /\ runs' = [runs EXCEPT ![r] =
                         Awaiting(Started(r, "validation"), "await_validate")]
          /\ executing' = NoRun
    /\ UNCHANGED <<self_task_id, self_work_dir, disk, signalled>>
    /\ UNCHANGED <<vvars, lvars, pvars, wvars, uvars>>

\* ValidatorAgent.run returns
RunValidateReturns(r) ==
    /\ executing = NoRun
    /\ runs[r].pc = "await_validate"
    /\ runs' = [runs EXCEPT ![r] = [@ EXCEPT !.pc = "assemble"]]
    /\ executing' = r
    /\ UNCHANGED <<self_task_id, self_work_dir, disk, signalled>>
    /\ UNCHANGED <<vvars, lvars, pvars, wvars, uvars>>

\* Phase 6, lines 146-150: _generate_project_output, lines 305-340, with
\* project_name=self.task_id
RunGenerateProjectOutput(r) ==
    /\ executing = r
    /\ runs[r].pc = "assemble"
    /\ runs' = [runs EXCEPT ![r] =
                   [Started(r, "assembly") EXCEPT
                       !.pc = "save",
                       !.project_output = Some([project_name |-> self_task_id,
                                                files |-> Files(runs[r].codes)])]]
    /\ UNCHANGED <<self_task_id, self_work_dir, executing, disk, signalled>>
    /\ UNCHANGED <<vvars, lvars, pvars, wvars, uvars>>

\* line 153: _save_project_files, lines 439-455, writes to self.work_dir; an
\* exception of save_code_file leaves what was written before it; line 158
\* returns the bundle
RunSaveProjectFiles(r) ==
    /\ executing = r
    /\ runs[r].pc = "save"
    /\ LET saved == SaveFiles(disk, self_work_dir, runs[r].project_output[1].files)
       IN  /\ disk' = IF saved.raised
                      THEN saved.files
                      ELSE SaveProjectDocuments(saved.files, self_work_dir)
           /\ runs' = [runs EXCEPT ![r] =
                          [@ EXCEPT !.pc = IF saved.raised THEN "raised" ELSE "returned",
                                    !.wrote = IF saved.files = disk /\ saved.raised
                                              THEN @ ELSE @ \cup {self_work_dir}]]
    /\ executing' = NoRun
    /\ UNCHANGED <<self_task_id, self_work_dir, signalled>>
    /\ UNCHANGED <<vvars, lvars, pvars, wvars, uvars>>

\* the deadline of the caller of r passes while the call is in progress; run
\* has no parameter through which it could learn of it, lines 59-64
CallerDeadline(r) ==
    /\ runs[r].pc \notin {"idle", "returned", "raised"}
    /\ r \notin signalled
    /\ signalled' = signalled \cup {r}
    /\ UNCHANGED <<self_task_id, self_work_dir, runs, executing, disk>>
    /\ UNCHANGED <<vvars, lvars, pvars, wvars, uvars>>

\* no run call on the controller: __init__, lines 55-57
InitRunsIdle ==
    /\ self_task_id = ""
    /\ self_work_dir = ""
    /\ runs = [r \in Runs |-> IdleRun("missing")]
    /\ executing = NoRun
    /\ disk = {}
    /\ signalled = {}

\* ThesisToCodeWorkflow not in use
InitWorkflowIdle ==
    /\ md_path = [ext |-> ".md", where |-> "missing"]
    /\ wpc = "idle"
    /\ task_data = <<>>
    /\ code_tasks = <<>>
    /\ project_files = <<>>
    /\ readme = <<>>
    /\ raised_in = "none"
    /\ InitRunsIdle

\* no helper call in progress
InitUtilIdle ==
    /\ util_args = <<>>
    /\ util_pc = "idle"
    /\ util_ret = <<>>

---------------------------------------------------------------------------
(* app/utils/json_utils.py: text is a sequence of tokens *)

\* longest unstructured response explored
MaxTextLen == 3

\* longest prose before and after a fenced block
MaxProse == 1

\* the three backquotes of a Markdown fence
FENCE == "<fence>"
NL == "\n"
\* a word of prose that is not JSON, such as the language tag after a fence
WORD == "w"
\* a JSON scalar literal, such as 42
SCALAR == "1"
\* a member name with its colon
KEY == "k:"
COMMA == ","
\* a JSON string literal, quotes included
QUOTED == {"\"numpy\"", "\"scipy\""}

\* str.strip(): the whitespace at both ends goes
RECURSIVE LStrip(_)
LStrip(text) ==
    IF text # <<>> /\ Head(text) = NL THEN LStrip(Tail(text)) ELSE text

RECURSIVE RStrip(_)
RStrip(text) ==
    IF text # <<>> /\ text[Len(text)] = NL
    THEN RStrip(SubSeq(text, 1, Len(text) - 1))
    ELSE text

Strip(text) == LStrip(RStrip(text))

\* str.find and str.rfind on a one-token pattern, 1-based; 0 for -1
Find(text, tok) ==
    LET hits == {i \in DOMAIN text : text[i] = tok}
    IN  IF hits = {} THEN 0 ELSE CHOOSE i \in hits : \A j \in hits : i <= j

RFind(text, tok) ==
    LET hits == {i \in DOMAIN text : text[i] = tok}
    IN  IF hits = {} THEN 0 ELSE CHOOSE i \in hits : \A j \in hits : j <= i

\* "\n".join(cleaned.splitlines()[1:]), or "" for a single line
DropFirstLine(text) ==
    IF Find(text, NL) = 0 THEN <<>>
    ELSE SubSeq(text, Find(text, NL) + 1, Len(text))

\* strip_code_fences, lines 12-26
strip_code_fences(text) ==
    LET cleaned == Strip(text)
        opened == IF cleaned # <<>> /\ Head(cleaned) = FENCE
                  THEN DropFirstLine(cleaned)
                  ELSE cleaned
        closed == IF opened # <<>> /\ opened[Len(opened)] = FENCE
                  THEN SubSeq(opened, 1, Len(opened) - 1)
                  ELSE opened
    IN  Strip(closed)

Min2(a, b) == IF a <= b THEN a ELSE b
Max2(a, b) == IF a >= b THEN a ELSE b

\* extract_json_blob, lines 29-45: from the first { or [ (or the start) to
\* the last } or ] (or the end)
extract_json_blob(text) ==
    LET cleaned == strip_code_fences(text)
        open1 == Find(cleaned, "{")
        open2 == Find(cleaned, "[")
        start == IF open1 = 0 /\ open2 = 0 THEN 1
                 ELSE IF open1 = 0 THEN open2
                 ELSE IF open2 = 0 THEN open1
                 ELSE Min2(open1, open2)
        trimmed == SubSeq(cleaned, start, Len(cleaned))
        close1 == RFind(trimmed, "}")
        close2 == RFind(trimmed, "]")
        end == IF close1 = 0 /\ close2 = 0 THEN Len(trimmed) ELSE Max2(close1, close2)
    IN  Strip(SubSeq(trimmed, 1, end))

\* the JSON grammar: ParseValue gives the position after the value that
\* starts at position i, or 0 when there is none
RECURSIVE ParseValue(_, _)
RECURSIVE ParseMembers(_, _)
RECURSIVE ParseElements(_, _)

ParseValue(text, i) ==
    IF i > Len(text) THEN 0
    ELSE IF text[i] = SCALAR \/ text[i] \in QUOTED THEN i + 1
    ELSE IF text[i] = "{"
    THEN IF i + 1 <= Len(text) /\ text[i + 1] = "}" THEN i + 2
         ELSE ParseMembers(text, i + 1)
    ELSE IF text[i] = "["
    THEN IF i + 1 <= Len(text) /\ text[i + 1] = "]" THEN i + 2
         ELSE ParseElements(text, i + 1)
    ELSE 0

\* one or more `name: value`, separated by commas, then }
ParseMembers(text, i) ==
    IF i > Len(text) \/ text[i] # KEY THEN 0
    ELSE LET j == ParseValue(text, i + 1)
         IN  IF j = 0 \/ j > Len(text) THEN 0
             ELSE IF text[j] = "}" THEN j + 1
             ELSE IF text[j] = COMMA THEN ParseMembers(text, j + 1)
             ELSE 0

\* one or more values, separated by commas, then ]
ParseElements(text, i) ==
    LET j == ParseValue(text, i)
    IN  IF j = 0 \/ j > Len(text) THEN 0
        ELSE IF text[j] = "]" THEN j + 1
        ELSE IF text[j] = COMMA THEN ParseElements(text, j + 1)
        ELSE 0

\* json.loads: whitespace between tokens is skipped; the value is given as
\* its tokens, and a JSONDecodeError as ok = FALSE
JsonLoads(text) ==
    LET toks == SelectSeq(text, LAMBDA t : t # NL)
    IN  IF toks # <<>> /\ ParseValue(toks, 1) = Len(toks) + 1
        THEN [ok |-> TRUE, value |-> toks]
        ELSE [ok |-> FALSE, value |-> <<>>]

\* load_json_from_response, lines 48-55
load_json_from_response(response) == JsonLoads(extract_json_blob(response))

\* the helper call returns ret when ok, raises otherwise
UtilFinish(ok, ret) ==
    /\ util_pc' = IF ok THEN "returned" ELSE "raised"
    /\ util_ret' = ret
    /\ UNCHANGED util_args

LoadJsonFromResponse ==
    /\ util_pc = "load_json_from_response"
    /\ LET r == load_json_from_response(util_args)
       IN  UtilFinish(r.ok, r.value)
    /\ UNCHANGED <<vvars, lvars, pvars, wvars, rvars>>

---------------------------------------------------------------------------
(* ThesisToCodeWorkflow._generate_project_output: requirements *)

\* longest dependency list of an artifact or of the analyzer
MaxDeps == 1

\* most artifacts handed to _generate_project_output
MaxCodes == 2

\* package names, as sequences of character codes: "a", "ab", "b"
PackageNames == {<<1>>, <<1, 2>>, <<2>>}

\* str < str in Python: at the first position where they differ the smaller
\* character decides; a proper prefix is smaller
RECURSIVE LexLess(_, _)
LexLess(a, b) ==
    IF b = <<>> THEN FALSE
    ELSE IF a = <<>> THEN TRUE
    ELSE IF Head(a) # Head(b) THEN Head(a) < Head(b)
    ELSE LexLess(Tail(a), Tail(b))

Range(f) == {f[i] : i \in DOMAIN f}

\* sorted(list(S)) for a set S of str
RECURSIVE PySorted(_)
PySorted(S) ==
    IF S = {} THEN <<>>
    ELSE LET least == CHOOSE x \in S : \A y \in S \ {x} : LexLess(x, y)
         IN  <<least>> \o PySorted(S \ {least})

\* all_deps, lines 317-322: a set updated with every artifact's dependencies
\* and with the analyzer's libraries
AllDeps(codes, libraries) ==
    UNION {Range(codes[i]) : i \in DOMAIN codes} \cup Range(libraries)

RECURSIVE Concat(_)
Concat(lists) == IF lists = <<>> THEN <<>> ELSE Head(lists) \o Concat(Tail(lists))

\* mutant of Requirements: the lists one after the other
Requirements_Concatenated(codes, libraries) == Concat(codes) \o libraries

\* requirements, line 325
Requirements(codes, libraries) == PySorted(AllDeps(codes, libraries))

GenerateRequirements ==
    /\ util_pc = "requirements"
    /\ UtilFinish(TRUE, Requirements(util_args.dependencies, util_args.libraries))
    /\ UNCHANGED <<vvars, lvars, pvars, wvars, rvars>>

---------------------------------------------------------------------------
(* CoderAgent: the dependencies of a tool payload (coder_agent.py, lines
   212-226 for a task, the same statements at lines 307-321 for the main
   program). A JSON value is given by its tokens, a Python list by the
   sequence of its elements. *)

\* most tokens of a dependency string
MaxDepTokens == 5

\* the elements of the JSON list whose first element starts at position i
RECURSIVE ListElements(_, _)
ListElements(toks, i) ==
    IF toks[i] = "]" THEN <<>>
    ELSE LET j == ParseValue(toks, i)
         IN  <<SubSeq(toks, i, j - 1)>>
                 \o ListElements(toks, IF toks[j] = COMMA THEN j + 1 ELSE j)

\* isinstance(value, list) for a decoded JSON value
IsJsonList(value) == value[1] = "["

\* the Python value of a decoded JSON value: a list of its elements, or
\* something that is not a list
PyValue(value) ==
    IF IsJsonList(value)
    THEN [kind |-> "list", items |-> ListElements(value, 2)]
    ELSE [kind |-> "other", items |-> <<>>]

\* a Python list
PyList(items) == [kind |-> "list", items |-> items]

\* isinstance(item, str) for an element
IsStr(item) == Len(item) = 1 /\ item[1] \in QUOTED

\* mutant of Dependencies: a string that does not decode is kept as one name
Dependencies_KeepString(field) ==
    IF field.kind = "absent" THEN PyList(<<>>)
    ELSE IF field.kind = "str"
    THEN IF JsonLoads(field.text).ok /\ IsJsonList(JsonLoads(field.text).value)
         THEN PyValue(JsonLoads(field.text).value)
         ELSE PyList(<<field.text>>)
    ELSE IF field.kind = "list" THEN PyList(field.items)
    ELSE PyList(<<>>)

\* lines 213-218 and 225: deps = args.get("dependencies", []); a str is
\* decoded with json.loads, [] when that raises; anything but a list gives []
Dependencies(field) ==
    LET deps == IF field.kind = "absent" THEN PyList(<<>>)
                ELSE IF field.kind = "str"
                THEN LET r == JsonLoads(field.text)
                     IN  IF r.ok THEN PyValue(r.value) ELSE PyList(<<>>)
                ELSE IF field.kind = "list" THEN PyList(field.items)
                ELSE [kind |-> "other", items |-> <<>>]
    IN  IF deps.kind = "list" THEN deps ELSE PyList(<<>>)

\* GeneratedCode(..., dependencies=...), lines 220-226: dependencies is a
\* List[str]; an element that is not a str makes the constructor raise, the
\* except branch logs it and the method returns None
ExtractDependencies ==
    /\ util_pc = "dependencies"
    /\ LET deps == Dependencies(util_args)
       IN  IF \A i \in DOMAIN deps.items : IsStr(deps.items[i])
           THEN UtilFinish(TRUE, Some(deps.items))
           ELSE UtilFinish(TRUE, None)
    /\ UNCHANGED <<vvars, lvars, pvars, wvars, rvars>>

---------------------------------------------------------------------------
(* AnalyzerAgent.run (app/agents/analyzer_agent.py), step by step.
   util_args holds the arguments of run, util_ret its local variables. A
   simple_chat call is one entry of service_log; the attempts and the backoff
   inside it are the subject of ChatAttempt and ChatBackoff. *)

\* file_type of the descriptors that scan_data_files builds
DataFileTypes == {"excel", "csv"}

\* most auxiliary data files
MaxDataFiles == 2

\* most tables of the parsed document
MaxTables == 1

\* mutant of _determine_data_source: the tables of the document come first
_determine_data_source_TablesFirst(tables, data_files) ==
    IF tables > 0 THEN "pdf_embedded"
    ELSE IF data_files # None /\ \E i \in DOMAIN data_files[1] : data_files[1][i] = "excel"
    THEN "excel_file"
    ELSE IF data_files # None /\ \E i \in DOMAIN data_files[1] : data_files[1][i] = "csv"
    THEN "csv_file"
    ELSE "no_data"

\* _determine_data_source, lines 90-107; data_files is None or a list
_determine_data_source(tables, data_files) ==
    LET present == data_files # None /\ Len(data_files[1]) > 0
    IN  IF present /\ \E i \in DOMAIN data_files[1] : data_files[1][i] = "excel"
        THEN "excel_file"
        ELSE IF present /\ \E i \in DOMAIN data_files[1] : data_files[1][i] = "csv"
        THEN "csv_file"
        ELSE IF tables > 0 THEN "pdf_embedded"
        ELSE "no_data"

\* step 1 of run, line 57
DetermineDataSource ==
    /\ util_pc = "determine_data_source"
    /\ util_ret' = [util_ret EXCEPT !.data_source =
                       _determine_data_source(util_args.tables, util_args.data_files)]
    /\ util_pc' = "analyze_thesis_type"
    /\ UNCHANGED util_args
    /\ UNCHANGED <<vvars, lvars, pvars, wvars, rvars>>

\* how a simple_chat call followed by load_json_from_response may end
CallOutcomes == {"transport_error", "unparsable", "parsed"}

\* the entry a simple_chat call leaves in the service log
CallEntry(outcome) == IF outcome = "transport_error" THEN "error" ELSE "text"

\* the values of ThesisType the model distinguishes
ThesisTypeOTHER == "other"
ThesisTypes == {"empirical", "machine_learning", ThesisTypeOTHER}

\* the "type" of a classification answer: absent, a known name, anything else
RawTypes == {None} \cup {Some(t) : t \in {"empirical", "machine_learning", "bogus"}}

\* type_mapping.get(data.get("type", ""), ThesisType.OTHER), line 141
TypeMapping(raw) ==
    IF raw # None /\ raw[1] \in ThesisTypes \ {ThesisTypeOTHER} THEN raw[1] ELSE ThesisTypeOTHER

\* a classification answer: its type, and whether its method is a string
ClassificationData == [type : RawTypes, method_is_str : BOOLEAN]

\* mutant of ClassificationDefault: the type is left as the first known one
ClassificationDefault_Empirical == [type |-> "empirical", method_is_str |-> TRUE]

\* the except branch of _analyze_thesis_type, lines 145-147
ClassificationDefault == [type |-> ThesisTypeOTHER, method_is_str |-> TRUE]

\* step 2 of run: _analyze_thesis_type, lines 108-147
AnalyzeThesisType ==
    /\ util_pc = "analyze_thesis_type"
    /\ \E outcome \in CallOutcomes :
        /\ service_log' = Append(service_log, CallEntry(outcome))
        /\ IF outcome = "parsed"
           THEN \E data \in ClassificationData :
                    util_ret' = [util_ret EXCEPT
                        !.thesis_analysis = [data EXCEPT !.type = TypeMapping(data.type)]]
           ELSE util_ret' = [util_ret EXCEPT
                    !.thesis_analysis = ClassificationDefault,
                    !.failed = @ \cup {"analyze_thesis_type"}]
    /\ util_pc' = "generate_code_tasks"
    /\ UNCHANGED util_args
    /\ UNCHANGED <<chat_args, chat_pc, attempt, chat_result, sleep_log>>
    /\ UNCHANGED <<vvars, pvars, wvars, rvars>>

\* a descriptor of the decomposition answer; convertible: the CodeTask
\* constructor accepts its values (a priority that is not an integer, say,
\* is rejected)
RawTaskDescriptors ==
    [priority : AnyPriority, task_type : RawTaskTypes, convertible : {TRUE}]
        \cup [priority : {None}, task_type : {"bogus"}, convertible : {FALSE}]

\* mutant of _generate_code_tasks: the tasks built before the exception
_generate_code_tasks_Partial(data, ids) ==
    IF \A k \in DOMAIN data : data[k].convertible
    THEN CodeTasksFrom(data, ids)
    ELSE LET bad == CHOOSE k \in DOMAIN data :
                        /\ ~data[k].convertible
                        /\ \A j \in 1..(k - 1) : data[j].convertible
         IN  CodeTasksFrom(SubSeq(data, 1, bad - 1), ids)

\* _generate_code_tasks, lines 207-231, on a parsed answer: the loop builds
\* the list and line 227 returns it; an exception inside the loop reaches
\* the except clause, which returns []
_generate_code_tasks(data, ids) ==
    IF \A k \in DOMAIN data : data[k].convertible
    THEN CodeTasksFrom(data, ids)
    ELSE <<>>

\* step 3 of run: _generate_code_tasks, lines 149-231, when a parsed answer
\* is one of answers
GenerateCodeTasksOn(answers) ==
    /\ util_pc = "generate_code_tasks"
    /\ \E outcome \in CallOutcomes :
        /\ service_log' = Append(service_log, CallEntry(outcome))
        /\ IF outcome = "parsed"
           THEN \E data \in answers :
                \E ids \in [1..Len(data) -> TaskIds] :
                    /\ task_data' = data
                    /\ util_ret' = [util_ret EXCEPT
                           !.code_tasks = _generate_code_tasks(data, ids),
                           !.failed = IF \A k \in DOMAIN data : data[k].convertible
                                      THEN @ ELSE @ \cup {"generate_code_tasks"}]
           ELSE /\ task_data' = <<>>
                /\ util_ret' = [util_ret EXCEPT
                       !.code_tasks = <<>>,
                       !.failed = @ \cup {"generate_code_tasks"}]
    /\ util_pc' = "determine_tech_stack"
    /\ UNCHANGED util_args
    /\ UNCHANGED <<chat_args, chat_pc, attempt, chat_result, sleep_log>>
    /\ UNCHANGED <<md_path, wpc, code_tasks, project_files, readme, raised_in>>
    /\ UNCHANGED <<vvars, pvars, rvars>>

\* step 3 of a whole AnalyzerAgent.run
GenerateCodeTasks == GenerateCodeTasksOn(SeqsUpTo(RawTaskDescriptors, MaxTasks))

\* names of libraries in a recommendation
LibraryNames == {"pandas", "scipy"}

\* the "libraries" of a recommendation; an absent key reads as []
LibraryLists == SeqsUpTo(LibraryNames, MaxDeps)

\* the except branch of _determine_tech_stack, lines 263-268: the libraries
DefaultLibraries == <<"pandas", "numpy", "matplotlib", "scikit-learn">>

\* step 4 of run: _determine_tech_stack, lines 233-268
DetermineTechStack ==
    /\ util_pc = "determine_tech_stack"
    /\ \E outcome \in CallOutcomes :
        /\ service_log' = Append(service_log, CallEntry(outcome))
        /\ IF outcome = "parsed"
           THEN \E libraries \in LibraryLists :
                    util_ret' = [util_ret EXCEPT !.libraries = libraries]
           ELSE util_ret' = [util_ret EXCEPT
                    !.libraries = DefaultLibraries,
                    !.failed = @ \cup {"determine_tech_stack"}]
    /\ util_pc' = "result"
    /\ UNCHANGED util_args
    /\ UNCHANGED <<chat_args, chat_pc, attempt, chat_result, sleep_log>>
    /\ UNCHANGED <<vvars, pvars, wvars, rvars>>

\* AnalysisResult(...), lines 77-88: research_method must be a str, or the
\* constructor raises out of run
BuildAnalysisResult ==
    /\ util_pc = "result"
    /\ util_pc' = IF util_ret.thesis_analysis.method_is_str THEN "returned" ELSE "raised"
    /\ UNCHANGED <<util_args, util_ret>>
    /\ UNCHANGED <<vvars, lvars, pvars, wvars, rvars>>

---------------------------------------------------------------------------
(* CoderAgent._generate_code_for_task: from the answer of the service to an
   artifact (coder_agent.py, lines 198-255) *)

\* tool calls of an answer after the first one
MaxLaterCalls == 1

\* the "code" of a payload: absent, a str, or a value that is not a str
PayloadCodes ==
    {[kind |-> "absent"], [kind |-> "other"]}
    \cup {[kind |-> "str", text |-> t] : t \in CoderTexts}

\* the "dependencies" of a payload
PayloadDependencies ==
    {[kind |-> "absent"],
     [kind |-> "list", items |-> << <<"\"numpy\"">> >>],
     [kind |-> "str", text |-> <<"[", "\"scipy\"", "]">>],
     [kind |-> "str", text |-> <<"[", "\"scipy\"">>]}

\* tool_call.function.arguments: text json.loads rejects, a JSON value that
\* is not an object, or an object with some of the keys of the schema
ToolArguments ==
    {[kind |-> "undecodable"], [kind |-> "not_object"]}
    \cup [kind : {"object"}, code : PayloadCodes,
          file_name : {None} \cup {Some(n) : n \in FileNames},
          description : {None, Some("payload description")},
          dependencies : PayloadDependencies]

\* a tool call: the name of the function and its arguments
ToolCalls == [name : {"generate_code", "other_tool"}, arguments : ToolArguments]

\* the calls an answer may carry after its first call
LaterCalls ==
    {[name |-> "other_tool", arguments |-> [kind |-> "undecodable"]],
     [name |-> "generate_code",
      arguments |-> [kind |-> "object",
                     code |-> [kind |-> "str", text |-> BadText(1)],
                     file_name |-> Some("main.py"),
                     description |-> Some("payload description"),
                     dependencies |-> [kind |-> "absent"]]]}

\* message.tool_calls: None or empty, or a first call and later calls
ToolCallLists ==
    {<<>>} \cup {<<c>> \o rest : c \in ToolCalls, rest \in SeqsUpTo(LaterCalls, MaxLaterCalls)}

\* message.content: None or empty, or prose that holds a python block (given
\* by the text of the first one) or none
Contents ==
    {[present |-> FALSE, block |-> None], [present |-> TRUE, block |-> None]}
    \cup {[present |-> TRUE, block |-> Some(t)] : t \in CoderTexts}

\* what llm.chat gives for a generation request: it raises after its last
\* attempt, or it returns a message
TaskResponses ==
    {[kind |-> "error"]}
    \cup [kind : {"message"}, tool_calls : ToolCallLists, content : Contents]

\* task.description
DescriptionOf(task) == <<"description of task", task.task_pos>>

\* f"{task.task_type.value}.py", lines 222 and 250
DefaultFileName(task) ==
    IF task.task_type = "data_analysis" THEN "data_analysis.py"
    ELSE IF task.task_type = "visualization" THEN "visualization.py"
    ELSE "utility.py"

\* _extract_code_from_text, lines 239-255: the first python block, if any
_extract_code_from_text(content, task) ==
    IF content.block = None THEN None
    ELSE Some([task_id |-> task.task_id,
               file_name |-> DefaultFileName(task),
               code |-> content.block[1],
               description |-> DescriptionOf(task),
               dependencies |-> <<>>,
               task_pos |-> task.task_pos])

\* mutant of FromToolCall: arguments that are not an object give an artifact
\* with the defaults of every key
FromToolCall_Lenient(arguments, task) ==
    IF arguments.kind # "object"
    THEN Some([task_id |-> task.task_id, file_name |-> DefaultFileName(task),
               code |-> EmptyText, description |-> DescriptionOf(task),
               dependencies |-> <<>>, task_pos |-> task.task_pos])
    ELSE IF \/ arguments.code.kind = "other"
            \/ \E i \in DOMAIN Dependencies(arguments.dependencies).items :
                  ~IsStr(Dependencies(arguments.dependencies).items[i])
    THEN None
    ELSE Some([task_id |-> task.task_id,
               file_name |-> IF arguments.file_name = None
                             THEN DefaultFileName(task)
                             ELSE arguments.file_name[1],
               code |-> IF arguments.code.kind = "absent"
                        THEN EmptyText
                        ELSE arguments.code.text,
               description |-> IF arguments.description = None
                               THEN DescriptionOf(task)
                               ELSE <<arguments.description[1]>>,
               dependencies |-> Dependencies(arguments.dependencies).items,
               task_pos |-> task.task_pos])

\* lines 210-226: the artifact of a generate_code call. json.loads raising,
\* args.get on a value that is not a dict, and the constructor rejecting a
\* code that is not a str or a dependency that is not a str all end in the
\* except branch, and the method returns None
FromToolCall(arguments, task) ==
    IF arguments.kind # "object" THEN None
    ELSE LET deps == Dependencies(arguments.dependencies)
         IN  IF \/ arguments.code.kind = "other"
                \/ \E i \in DOMAIN deps.items : ~IsStr(deps.items[i])
             THEN None
             ELSE Some([task_id |-> task.task_id,
                        file_name |-> IF arguments.file_name = None
                                      THEN DefaultFileName(task)
                                      ELSE arguments.file_name[1],
                        code |-> IF arguments.code.kind = "absent"
                                 THEN EmptyText
                                 ELSE arguments.code.text,
                        description |-> IF arguments.description = None
                                        THEN DescriptionOf(task)
                                        ELSE <<arguments.description[1]>>,
                        dependencies |-> deps.items,
                        task_pos |-> task.task_pos])

\* _generate_code_for_task, lines 198-237, from the answer on: only the first
\* tool call is looked at; nothing is raised
_generate_code_for_task(task, response) ==
    IF response.kind = "error" THEN None
    ELSE IF response.tool_calls # <<>> /\ response.tool_calls[1].name = "generate_code"
    THEN FromToolCall(response.tool_calls[1].arguments, task)
    ELSE IF response.content.present
    THEN _extract_code_from_text(response.content, task)
    ELSE None

\* one call of _generate_code_for_task on util_args = [task, response]
GenerateCodeFromResponse ==
    /\ util_pc = "generate_code_for_task"
    /\ UtilFinish(TRUE, _generate_code_for_task(util_args.task, util_args.response))
    /\ UNCHANGED <<vvars, lvars, pvars, wvars, rvars>>

---------------------------------------------------------------------------
(* CoderAgent.run (app/agents/coder_agent.py), step by step, with the
   requests it sends. util_args holds the arguments of run, util_ret its
   local variables and the messages of every llm.chat call. *)

\* the system prompt of the agent, lines 59-63
system_prompt == "system_prompt"

\* _build_context, lines 125-160: the analysis result's tasks in their own
\* order, and the data files
_build_context(tasks, files) ==
    [code_tasks |-> tasks, data_files |-> files]

\* mutant of TaskPrompt: the artifacts made so far are added to the prompt
TaskPrompt_WithHistory(task, context) ==
    [context |-> context, task |-> task, history |-> util_ret.generated_codes]

\* the prompt of _generate_code_for_task, lines 170-189
TaskPrompt(task, context) == [context |-> context, task |-> task]

\* the prompt of _generate_main_program, lines 266-285
MainPrompt(codes, context) ==
    [context |-> context, file_info |-> [i \in DOMAIN codes |-> codes[i].file_name]]

\* messages, lines 193-196 and 289-292
Messages(prompt) ==
    <<[role |-> "system", content |-> system_prompt],
      [role |-> "user", content |-> prompt]>>

\* mutant of CoderBegin: analysis_result.code_tasks.sort(key=...) in place
CoderBegin_SortsInPlace ==
    /\ util_pc = "coder_begin"
    /\ util_ret' = [context |-> _build_context(util_args.code_tasks, util_args.data_files),
                    sorted_tasks |-> SortedByPriority(util_args.code_tasks),
                    next |-> 1,
                    generated_codes |-> <<>>,
                    requests |-> <<>>,
                    failures |-> <<>>,
                    main_requests |-> 0]
    /\ util_pc' = "coder_loop"
    /\ util_args' = [util_args EXCEPT !.code_tasks = SortedByPriority(@)]
    /\ UNCHANGED <<vvars, lvars, pvars, wvars, rvars>>

\* lines 102-108: the context and the sorted tasks
CoderBegin ==
    /\ util_pc = "coder_begin"
    /\ util_ret' = [context |-> _build_context(util_args.code_tasks, util_args.data_files),
                    sorted_tasks |-> SortedByPriority(util_args.code_tasks),
                    next |-> 1,
                    generated_codes |-> <<>>,
                    requests |-> <<>>,
                    failures |-> <<>>,
                    main_requests |-> 0]
    /\ util_pc' = "coder_loop"
    /\ UNCHANGED util_args
    /\ UNCHANGED <<vvars, lvars, pvars, wvars, rvars>>

\* the answers drawn in a run of CoderAgent.run: the service raises; the
\* payload does not decode; no tool call, with or without prose that holds no
\* python block; a payload with code and perhaps a file name; a python block
RunResponses ==
    {[kind |-> "error"]}
    \cup {[kind |-> "message",
           tool_calls |-> <<[name |-> "generate_code", arguments |-> [kind |-> "undecodable"]]>>,
           content |-> [present |-> FALSE, block |-> None]]}
    \cup {[kind |-> "message", tool_calls |-> <<>>, content |-> [present |-> p, block |-> None]] :
             p \in BOOLEAN}
    \cup {[kind |-> "message",
           tool_calls |-> <<[name |-> "generate_code",
                             arguments |-> [kind |-> "object",
                                            code |-> [kind |-> "str", text |-> t],
                                            file_name |-> n,
                                            description |-> None,
                                            dependencies |-> [kind |-> "absent"]]]>>,
           content |-> [present |-> FALSE, block |-> None]] :
             t \in CoderTexts, n \in {None, Some("main.py")}}
    \cup {[kind |-> "message", tool_calls |-> <<>>, content |-> [present |-> TRUE, block |-> Some(t)]] :
             t \in CoderTexts}

\* how the generation behind an answer failed, if it did: the service raised
\* after its retries, the tool payload does not decode, or the answer has
\* neither a tool call nor a python block
FailureKind(response) ==
    IF response.kind = "error" THEN "service_error"
    ELSE IF response.tool_calls # <<>>
    THEN IF /\ response.tool_calls[1].name = "generate_code"
            /\ response.tool_calls[1].arguments.kind = "undecodable"
         THEN "undecodable_payload"
         ELSE "none"
    ELSE IF response.content.block = None THEN "no_tool_no_code"
    ELSE "none"

\* one pass of the loop, lines 111-115: _generate_code_for_task sends its
\* request and gives an artifact or None; run keeps the artifact
GenerateCodeForTask ==
    /\ util_pc = "coder_loop"
    /\ util_ret.next <= Len(util_ret.sorted_tasks)
    /\ \E response \in RunResponses :
          LET task == util_ret.sorted_tasks[util_ret.next]
              code == _generate_code_for_task(task, response)
          IN  util_ret' = [util_ret EXCEPT
                  !.requests = Append(@, Messages(TaskPrompt(task, util_ret.context))),
                  !.failures = Append(@, FailureKind(response)),
                  !.next = @ + 1,
                  !.generated_codes =
                      IF code = None THEN @
                      ELSE Append(@, TaskArtifact(task, code[1].code, code[1].file_name))]
    /\ UNCHANGED <<util_args, util_pc>>
    /\ UNCHANGED <<vvars, lvars, pvars, wvars, rvars>>

\* mutant of MainFromResponse: a failed request gives an empty main program
MainFromResponse_Placeholder(response) ==
    IF response.kind = "error" THEN Some(MainProgram(EmptyText))
    ELSE IF response.tool_calls # <<>> /\ response.tool_calls[1].name = "generate_code"
    THEN IF response.tool_calls[1].arguments.kind = "object"
              /\ response.tool_calls[1].arguments.code.kind = "str"
         THEN Some(MainProgram(response.tool_calls[1].arguments.code.text))
         ELSE Some(MainProgram(EmptyText))
    ELSE IF response.content.present /\ response.content.block # None
    THEN Some(MainProgram(response.content.block[1]))
    ELSE None

\* _generate_main_program, lines 297-330, from the answer on: the code of the
\* first tool call or of the first python block, under the id "main"
MainFromResponse(response) ==
    IF response.kind = "error" THEN None
    ELSE IF response.tool_calls # <<>> /\ response.tool_calls[1].name = "generate_code"
    THEN LET made == FromToolCall(response.tool_calls[1].arguments,
                                  [task_id |-> MainId, task_type |-> "utility", task_pos |-> -1])
         IN  IF made = None THEN None ELSE Some(MainProgram(made[1].code))
    ELSE IF response.content.present /\ response.content.block # None
    THEN Some(MainProgram(response.content.block[1]))
    ELSE None

\* lines 118-123: _generate_main_program sends nothing when there is no
\* artifact (lines 263-264); else it sends its request and gives main.py or
\* None
GenerateMainProgram ==
    /\ util_pc = "coder_loop"
    /\ util_ret.next > Len(util_ret.sorted_tasks)
    /\ IF util_ret.generated_codes = <<>>
       THEN UNCHANGED util_ret
       ELSE \E response \in RunResponses :
               LET main_code == MainFromResponse(response)
               IN  util_ret' = [util_ret EXCEPT
                       !.requests = Append(@, Messages(MainPrompt(util_ret.generated_codes,
                                                                  util_ret.context))),
                       !.failures = Append(@, FailureKind(response)),
                       !.main_requests = @ + 1,
                       !.generated_codes =
                           IF main_code = None THEN @ ELSE Append(@, main_code[1])]
    /\ util_pc' = "returned"
    /\ UNCHANGED util_args
    /\ UNCHANGED <<vvars, lvars, pvars, wvars, rvars>>

---------------------------------------------------------------------------
(* The validator on an arbitrary artifact list *)

\* LLM.chat not in use
InitChatIdle ==
    /\ chat_args = [tools |-> FALSE, tool_choice |-> "None", max_tokens |-> 0,
                    max_retries |-> DefaultChatRetries]
    /\ chat_pc = "idle"
    /\ attempt = 0
    /\ chat_result = "None"
    /\ service_log = <<>>
    /\ sleep_log = <<>>

\* the validator not in use
InitValidatorIdle ==
    /\ max_retries = 0
    /\ generated_codes = <<>>
    /\ vpc = "idle"
    /\ vidx = 1
    /\ current_code = EmptyText
    /\ retry_count = 0
    /\ results = <<>>
    /\ final_codes = <<>>
    /\ fix_log = <<>>
    /\ working = <<>>
    /\ exit_by = <<>>

ArtifactLists == UNION {[1..n -> GeneratedCode] : n \in 0..MaxArtifacts}

InitValidator ==
    /\ max_retries \in 0..MaxBudget
    /\ generated_codes \in ArtifactLists
    /\ vpc = "next"
    /\ vidx = 1
    /\ current_code = EmptyText
    /\ retry_count = 0
    /\ results = <<>>
    /\ final_codes = <<>>
    /\ fix_log = [i \in 1..Len(generated_codes) |-> <<>>]
    /\ working = <<>>
    /\ exit_by = <<>>
    /\ InitChatIdle
    /\ InitParserIdle
    /\ InitWorkflowIdle
    /\ InitUtilIdle

NextValidator ==
    \/ ValidateBegin
    \/ ValidateIteration
    \/ ValidateExhausted
    \/ ValidatorReturn
    \/ ApplyFixes

SpecValidator == InitValidator /\ [][NextValidator]_vars

---------------------------------------------------------------------------
(* One LLM.chat call with arbitrary arguments *)

InitLLM ==
    /\ chat_args \in ChatArgs
    /\ chat_pc = "try"
    /\ attempt = 0
    /\ chat_result = "None"
    /\ service_log = <<>>
    /\ sleep_log = <<>>
    /\ InitValidatorIdle
    /\ InitParserIdle
    /\ InitWorkflowIdle
    /\ InitUtilIdle

NextLLM ==
    \/ ChatAttempt
    \/ ChatBackoff
    \/ ChatFallThrough

SpecLLM == InitLLM /\ [][NextLLM]_vars

---------------------------------------------------------------------------
(* One ParserAgent.run call on an arbitrary argument *)

InitParser ==
    /\ pdf_path \in PdfPaths
    /\ ppc = "convert"
    /\ now = 0
    /\ start_time = 0
    /\ markdown_content = MdNone
    /\ parsed_content = NoParsedContent
    /\ tier_log = <<>>
    /\ upload_result = "unset"
    /\ poll_exit = NoPollExit
    /\ last_check = -1
    /\ slept = 0
    /\ completed_seen = FALSE
    /\ last_status = "none"
    /\ InitValidatorIdle
    /\ InitChatIdle
    /\ InitWorkflowIdle
    /\ InitUtilIdle

NextParser ==
    \/ ConvertPdfToMarkdown
    \/ SubmitUrlTask
    \/ UploadAndParse
    \/ PollCheck
    \/ PollSleep
    \/ PollTimeout
    \/ LocalPdfParse
    \/ AfterConversion
    \/ ParseMarkdownStructure

SpecParser == InitParser /\ [][NextParser]_vars

\* every await of the parser returns and the event loop resumes the coroutine
SpecParserFair == SpecParser /\ WF_vars(NextParser)

---------------------------------------------------------------------------
(* One load_json_from_response call on an arbitrary response *)

\* the tokens of unstructured text
TextTokens == {FENCE, NL, WORD, SCALAR, "{", "}", "[", "]"}

\* JSON objects a response may carry
JsonObjects ==
    { <<"{", "}">>,
      <<"{", KEY, SCALAR, "}">>,
      <<"{", KEY, "[", SCALAR, COMMA, SCALAR, "]", "}">>,
      <<"{", KEY, SCALAR, COMMA, NL, KEY, "{", "}", "}">> }

\* a fence with or without the language tag, the object, a closing fence
Fenced(object) ==
    { <<FENCE, WORD, NL>> \o object \o <<NL, FENCE>>,
      <<FENCE, NL>> \o object \o <<NL, FENCE>> }

\* prose on its own lines around a block
Around(before, block, after) ==
    (IF before = <<>> THEN <<>> ELSE before \o <<NL>>)
    \o block
    \o (IF after = <<>> THEN <<>> ELSE <<NL>> \o after)

\* prose, then one fenced JSON object, then prose
FencedResponses ==
    { Around(before, block, after) :
        before \in SeqsUpTo(TextTokens, MaxProse),
        block \in UNION {Fenced(object) : object \in JsonObjects},
        after \in SeqsUpTo(TextTokens, MaxProse) }

InitJson ==
    /\ util_args \in SeqsUpTo(TextTokens, MaxTextLen) \cup FencedResponses
    /\ util_pc = "load_json_from_response"
    /\ util_ret = <<>>
    /\ InitValidatorIdle
    /\ InitChatIdle
    /\ InitParserIdle
    /\ InitWorkflowIdle

NextJson == LoadJsonFromResponse

SpecJson == InitJson /\ [][NextJson]_vars

---------------------------------------------------------------------------
(* The requirements of arbitrary dependency lists *)

DependencyLists == SeqsUpTo(PackageNames, MaxDeps)

InitRequirements ==
    /\ util_args \in [dependencies : SeqsUpTo(DependencyLists, MaxCodes),
                      libraries : DependencyLists]
    /\ util_pc = "requirements"
    /\ util_ret = <<>>
    /\ InitValidatorIdle
    /\ InitChatIdle
    /\ InitParserIdle
    /\ InitWorkflowIdle

NextRequirements == GenerateRequirements

SpecRequirements == InitRequirements /\ [][NextRequirements]_vars

---------------------------------------------------------------------------
(* One ThesisToCodeWorkflow.run call on an arbitrary argument *)

Init ==
    /\ md_path \in MdPaths
    /\ wpc = "load"
    /\ task_data \in SeqsUpTo(TaskDescriptors({None}, {"utility"}), MaxTasks)
    /\ code_tasks = <<>>
    /\ project_files = <<>>
    /\ readme = <<>>
    /\ raised_in = "none"
    /\ max_retries \in 0..MaxBudget
    /\ generated_codes = <<>>
    /\ vpc = "idle"
    /\ vidx = 1
    /\ current_code = EmptyText
    /\ retry_count = 0
    /\ results = <<>>
    /\ final_codes = <<>>
    /\ fix_log = <<>>
    /\ working = <<>>
    /\ exit_by = <<>>
    /\ InitParserIdle
    /\ InitChatIdle
    /\ InitUtilIdle
    /\ InitRunsIdle

Next ==
    \/ LoadInputContent
    \/ SaveInput
    \/ AnalyzerRun
    \/ CoderRun
    \/ ValidateBegin
    \/ ValidateIteration
    \/ ValidateExhausted
    \/ ValidatorReturn
    \/ ApplyFixes
    \/ GenerateProject

Spec == Init /\ [][Next]_vars

---------------------------------------------------------------------------
(* The dependencies of an arbitrary tool payload *)

\* the tokens of a dependency string
DepTokens == {"[", "]", COMMA, SCALAR, "{", "}"} \cup QUOTED

\* elements of a dependency list that is sent as a list
DepItems == {<<q>> : q \in QUOTED} \cup {<<SCALAR>>}

\* args["dependencies"]: absent, a str, a list, or another JSON value
DependencyFields ==
    {[kind |-> "absent"], [kind |-> "other"]}
    \cup {[kind |-> "str", text |-> t] : t \in SeqsUpTo(DepTokens, MaxDepTokens)}
    \cup {[kind |-> "list", items |-> l] : l \in SeqsUpTo(DepItems, MaxDeps)}

InitDependencies ==
    /\ util_args \in DependencyFields
    /\ util_pc = "dependencies"
    /\ util_ret = <<>>
    /\ InitValidatorIdle
    /\ InitChatIdle
    /\ InitParserIdle
    /\ InitWorkflowIdle

NextDependencies == ExtractDependencies

SpecDependencies == InitDependencies /\ [][NextDependencies]_vars

---------------------------------------------------------------------------
(* AnalyzerAgent.run on arbitrary arguments *)

\* data_files of run: None, or a list of descriptors given by their file_type
DataFileArgs == {None} \cup {Some(fs) : fs \in SeqsUpTo(DataFileTypes, MaxDataFiles)}

InitAnalyzer ==
    /\ util_args \in [data_files : DataFileArgs, tables : 0..MaxTables]
    /\ util_pc = "determine_data_source"
    /\ util_ret = [data_source |-> "unset", thesis_analysis |-> ClassificationDefault,
                   code_tasks |-> <<>>, libraries |-> <<>>, failed |-> {}]
    /\ InitValidatorIdle
    /\ InitChatIdle
    /\ InitParserIdle
    /\ InitWorkflowIdle

NextAnalyzer ==
    \/ DetermineDataSource
    \/ AnalyzeThesisType
    \/ GenerateCodeTasks
    \/ DetermineTechStack
    \/ BuildAnalysisResult

SpecAnalyzer == InitAnalyzer /\ [][NextAnalyzer]_vars

---------------------------------------------------------------------------
(* _generate_code_tasks on an arbitrary decomposition answer *)

InitCodeTasks ==
    /\ util_args = [data_files |-> None, tables |-> 0]
    /\ util_pc = "generate_code_tasks"
    /\ util_ret = [data_source |-> "no_data", thesis_analysis |-> ClassificationDefault,
                   code_tasks |-> <<>>, libraries |-> <<>>, failed |-> {}]
    /\ InitValidatorIdle
    /\ InitChatIdle
    /\ InitParserIdle
    /\ InitWorkflowIdle

NextCodeTasks == GenerateCodeTasksOn(SeqsUpTo(RawTaskDescriptors, MaxTaskData))

SpecCodeTasks == InitCodeTasks /\ [][NextCodeTasks]_vars

---------------------------------------------------------------------------
(* _generate_code_for_task on an arbitrary task and answer *)

\* a task of each kind
ResponseTasks ==
    {[task_id |-> "task_a", task_type |-> k, priority |-> 0, task_pos |-> 0] :
        k \in CodeTaskTypes}

InitTaskResponse ==
    /\ util_args \in [task : ResponseTasks, response : TaskResponses]
    /\ util_pc = "generate_code_for_task"
    /\ util_ret = <<>>
    /\ InitValidatorIdle
    /\ InitChatIdle
    /\ InitParserIdle
    /\ InitWorkflowIdle

NextTaskResponse == GenerateCodeFromResponse

SpecTaskResponse == InitTaskResponse /\ [][NextTaskResponse]_vars

---------------------------------------------------------------------------
(* CoderAgent.run on an arbitrary analysis result *)

\* data_files of run: None or one descriptor
CoderDataFiles == {None, Some(<<"csv">>)}

\* code_tasks of the analysis result
AnalysisTasks ==
    UNION {{CodeTasksFrom(data, ids) : ids \in [1..Len(data) -> TaskIds]} :
              data \in SeqsUpTo(TaskDescriptors(AnyPriority, {"utility"}), MaxTaskData)}

InitCoder ==
    /\ util_args \in [code_tasks : AnalysisTasks, data_files : CoderDataFiles]
    /\ util_pc = "coder_begin"
    /\ util_ret = <<>>
    /\ InitValidatorIdle
    /\ InitChatIdle
    /\ InitParserIdle
    /\ InitWorkflowIdle

NextCoder ==
    \/ CoderBegin
    \/ GenerateCodeForTask
    \/ GenerateMainProgram

SpecCoder == InitCoder /\ [][NextCoder]_vars

---------------------------------------------------------------------------
(* From the decomposition answer to the bundle: analysis, synthesis,
   validation as a whole, fix application and assembly *)

\* settings.MAX_CODE_RETRIES
DefaultCodeRetries == 5

InitAssembly ==
    /\ md_path = [ext |-> ".md", where |-> "local"]
    /\ wpc = "analyze"
    /\ task_data \in SeqsUpTo(TaskDescriptors(AnyPriority, {"utility"}), MaxTaskData)
    /\ code_tasks = <<>>
    /\ project_files = <<>>
    /\ readme = <<>>
    /\ raised_in = "none"
    /\ max_retries = DefaultCodeRetries
    /\ generated_codes = <<>>
    /\ vpc = "idle"
    /\ vidx = 1
    /\ current_code = EmptyText
    /\ retry_count = 0
    /\ results = <<>>
    /\ final_codes = <<>>
    /\ fix_log = <<>>
    /\ working = <<>>
    /\ exit_by = <<>>
    /\ InitParserIdle
    /\ InitChatIdle
    /\ InitUtilIdle
    /\ InitRunsIdle

NextAssembly ==
    \/ AnalyzerRun
    \/ CoderRun
    \/ ValidatorRun
    \/ ApplyFixes
    \/ GenerateProject

SpecAssembly == InitAssembly /\ [][NextAssembly]_vars

---------------------------------------------------------------------------
(* Two run calls on one controller, each on an arbitrary input *)

InitRuns ==
    /\ self_task_id = ""
    /\ self_work_dir = ""
    /\ runs \in [Runs -> {IdleRun(input) : input \in RunInputs}]
    /\ executing = NoRun
    /\ disk = {}
    /\ signalled = {}
    /\ md_path = [ext |-> ".md", where |-> "missing"]
    /\ wpc = "idle"
    /\ task_data = <<>>
    /\ code_tasks = <<>>
    /\ project_files = <<>>
    /\ readme = <<>>
    /\ raised_in = "none"
    /\ InitValidatorIdle
    /\ InitParserIdle
    /\ InitChatIdle
    /\ InitUtilIdle

NextRuns ==
    \E r \in Runs :
        \/ RunStart(r)
        \/ RunLoadInput(r)
        \/ RunSaveInput(r)
        \/ RunAnalyze(r)
        \/ RunAnalyzeReturns(r)
        \/ RunCode(r)
        \/ RunCodeReturns(r)
        \/ RunValidate(r)
        \/ RunValidateReturns(r)
        \/ RunGenerateProjectOutput(r)
        \/ RunSaveProjectFiles(r)
        \/ CallerDeadline(r)

SpecRuns == InitRuns /\ [][NextRuns]_vars

---------------------------------------------------------------------------
(* Claims about the workflow, checked under Spec *)

\* C8 (as claimed): when the ingestion of a document (a .pdf argument, remote
\* locator or local path) gives the empty document, run does not abort: no
\* step after the ingestion raises.
C8_IngestionFailureDoesNotAbort ==
    ( /\ md_path.ext = ".pdf"
      /\ wpc # "load"
      /\ parsed_content = ParsedContent("", FALSE) )
    => wpc # "aborted"

---------------------------------------------------------------------------
(* Claims about ParserAgent, checked under SpecParser and SpecParserFair *)

PollPcs == {"poll", "poll_sleep"}
Invoked(tier) == \E i \in DOMAIN tier_log : tier_log[i] = tier
Invocations(tier) == Cardinality({i \in DOMAIN tier_log : tier_log[i] = tier})

\* C6: in the conversion of a local document whose upload tier (with the
\* submission and the polling made on its behalf) gave no text, local
\* extraction is invoked exactly once, and once it has been invoked it is the
\* last tier invoked: no upload, submission or status check follows it.
C6_LocalExtractionOnceAndLast ==
    /\ (/\ pdf_path = "local"
        /\ upload_result \in {MdNone, ""}
        /\ ppc \in {"converted", "parse", "done"})
         => Invocations("local") = 1
    /\ \A i \in DOMAIN tier_log : tier_log[i] = "local" => i = Len(tier_log)
    /\ Invoked("local") => ppc \notin ({"submit", "upload"} \cup PollPcs)

C6_Witness ==
    /\ ppc = "done"
    /\ pdf_path = "local"
    /\ upload_result = MdNone
    /\ tier_log = <<"upload", "submit", "poll", "local">>

\* C7: ParserAgent.run never raises, whatever its argument and whichever
\* tiers fail; it returns, and what it returns is a ParsedContent whose
\* raw_markdown is empty when the conversion gave no text.
C7_RunAlwaysReturnsParsedContent ==
    /\ [](ppc # "raised")
    /\ [](ppc = "done" =>
            /\ parsed_content \in [raw_markdown : {"", "md"}, structured : BOOLEAN]
            /\ ~MdTruthy(markdown_content) => parsed_content = ParsedContent("", FALSE))
    /\ <>(ppc = "done")

C7_Witness ==
    /\ ppc = "done"
    /\ pdf_path = "local"
    /\ tier_log = <<"upload", "local">>
    /\ markdown_content = MdNone
    /\ parsed_content.raw_markdown = ""

\* C9: _poll_task_result always terminates, and it ends in one of three ways:
\* with the text of a task seen completed, with None on status failed, or
\* with None once max_wait seconds have elapsed; no status check starts when
\* max_wait seconds or more have elapsed, and the caller has slept exactly
\* interval seconds between one status check and the next.
C9_PollingTerminatesWithinMaxWait ==
    /\ [](ppc \in PollPcs => <>(ppc \notin PollPcs))
    /\ []((Invoked("poll") /\ ppc \notin PollPcs) =>
            poll_exit.how \in {"completed", "failed", "timeout"})
    /\ [](poll_exit.how = "completed" => completed_seen /\ poll_exit.value \in {"", "md"})
    /\ [](poll_exit.how = "failed" => poll_exit.value = MdNone)
    /\ [](poll_exit.how = "timeout" =>
            poll_exit.value = MdNone /\ now - start_time >= PollMaxWait)
    /\ [](last_check < PollMaxWait)
    /\ []((ppc = "poll" /\ last_check >= 0) => slept = PollInterval)

C9_Witness ==
    /\ poll_exit.how = "timeout"
    /\ last_check >= PollMaxWait - PollInterval
    /\ ppc = "done"

---------------------------------------------------------------------------
(* Claims about the validator, checked under SpecValidator *)

\* the artifacts whose outcome has been returned
Validated == 1..Len(results)

\* the number of _fix_code calls made for artifact i
FixRequests(i) == Len(fix_log[i])

\* C1: for every artifact and every max_retries >= 0 the validator makes at
\* most max_retries _fix_code calls (counting those that return usable code and
\* those that do not), and an outcome returned because the retry budget is
\* exhausted has is_valid = FALSE.
C1_FixRequestsWithinBudget ==
    /\ \A i \in 1..Len(fix_log) : FixRequests(i) <= max_retries
    /\ \A i \in Validated : exit_by[i] = "exhausted" => ~results[i].is_valid

\* C1 witness: an artifact that used its whole budget of at least one fix
\* request and was returned by the exhausted-budget exit.
C1_Witness ==
    \E i \in Validated :
        /\ max_retries >= 1
        /\ FixRequests(i) = max_retries
        /\ exit_by[i] = "exhausted"
        /\ ~results[i].is_valid

\* the first _fix_code call of artifact i returned usable (reparsable,
\* non-empty) code
FirstFixAccepted(i) ==
    /\ FixRequests(i) >= 1
    /\ FixUsable(_fix_code(fix_log[i][1]))

\* C2 (as claimed): for any max_retries >= 1, an artifact whose original text
\* fails the syntax check and whose first fix request returns reparsable code
\* ends with is_valid = TRUE and fixed_code set to the repaired text, which
\* differs from the original text.
C2_RepairedArtifactIsValid ==
    \A i \in Validated :
        ( /\ max_retries >= 1
          /\ ~_check_syntax(generated_codes[i].code)[1]
          /\ FirstFixAccepted(i) )
        => /\ results[i].is_valid
           /\ results[i].fixed_code = Some(fix_log[i][1].text)
           /\ fix_log[i][1].text # generated_codes[i].code

\* C3 (as claimed): the retry-budget-exhausted outcome is returned only while
\* the working text still fails the syntax check.
C3_ExhaustedOnlyWhenStillInvalid ==
    \A i \in Validated :
        exit_by[i] = "exhausted" => ~_check_syntax(working[i])[1]

\* C4 (as claimed): an invalid outcome does not stop the validation of the
\* artifacts after it (the validator returns one outcome per artifact, in
\* order), and every artifact whose outcome is invalid is in the final artifact
\* list, at its position, with exactly its original text.
C4_InvalidArtifactKeptUnmodified ==
    vpc = "applied" =>
        /\ Len(results) = Len(generated_codes)
        /\ Len(final_codes) = Len(generated_codes)
        /\ \A i \in 1..Len(results) :
              /\ results[i].task_id = generated_codes[i].task_id
              /\ ~results[i].is_valid => final_codes[i] = generated_codes[i]

\* C5: the advisory checks never affect validity: for max_retries >= 1 an
\* artifact whose text passes the syntax check is valid whatever suggestions
\* _static_analysis produces, its suggestions are those issues, and no
\* _fix_code call is made for it.
C5_AdvisoriesDoNotBlock ==
    \A i \in Validated :
        ( max_retries >= 1 /\ _check_syntax(generated_codes[i].code)[1] )
        => /\ results[i].is_valid
           /\ results[i].suggestions = _static_analysis(generated_codes[i].code)[2]
           /\ FixRequests(i) = 0

\* C5 witness: a valid outcome that carries all three advisory suggestions.
C5_Witness ==
    \E i \in Validated :
        /\ max_retries >= 1
        /\ _check_syntax(generated_codes[i].code)[1]
        /\ results[i].is_valid
        /\ results[i].suggestions = <<"entry", "try", "doc">>

---------------------------------------------------------------------------
(* Claims about LLM.chat, checked under SpecLLM *)

\* the service calls of this chat call that failed
FailedAttempts == {k \in 1..Len(service_log) : service_log[k] = "error"}

\* C10: LLM.chat with retry budget max_retries calls the service at most
\* max_retries times, makes no call after the first successful response, waits
\* 2^k seconds after failed attempt number k (counted from 0) before the next
\* attempt, and does not wait after the last failed attempt.
C10_BoundedRetriesWithBackoff ==
    /\ Len(service_log) <= chat_args.max_retries
    /\ \A k \in 1..Len(service_log) :
           service_log[k] # "error" => k = Len(service_log) /\ chat_pc = "returned"
    /\ \A k \in 1..Len(sleep_log) :
           /\ sleep_log[k] = Pow2(k - 1)
           /\ k \in FailedAttempts
           /\ k < chat_args.max_retries
    /\ chat_pc = "try" => Len(sleep_log) = Len(service_log)
    /\ chat_pc = "raised" =>
           /\ Len(service_log) = chat_args.max_retries
           /\ Len(sleep_log) = chat_args.max_retries - 1

\* C10 witness: a call with budget 3 whose three attempts all failed, with
\* waits of 1 and 2 seconds between them.
C10_Witness ==
    /\ chat_args.max_retries = 3
    /\ chat_pc = "raised"
    /\ service_log = <<"error", "error", "error">>
    /\ sleep_log = <<1, 2>>

\* C11 (as claimed): for every max_retries >= 0, LLM.chat either returns a
\* service response or raises the error of its last failed attempt; it never
\* returns normally without a service response.
C11_ReturnsResponseOrRaises ==
    /\ chat_pc = "returned" =>
           /\ chat_result \in {"text", "tool_call"}
           /\ service_log # <<>>
           /\ chat_result = service_log[Len(service_log)]
    /\ chat_pc = "raised" =>
           /\ service_log # <<>>
           /\ service_log[Len(service_log)] = "error"

---------------------------------------------------------------------------
(* Claims about load_json_from_response, checked under SpecJson *)

\* the response is prose, one fenced JSON object, prose; TheObject is that object
IsFencedResponse == util_args \in FencedResponses
Brackets == {"{", "}", "[", "]"}
HasBracket(text) == \E i \in DOMAIN text : text[i] \in Brackets

\* C12 (as claimed): for a response made of prose, one fenced JSON object and
\* prose, whatever the prose contains, load_json_from_response returns, and
\* what it returns is exactly that object.
C12_FencedObjectIsExtracted ==
    (IsFencedResponse /\ util_pc # "load_json_from_response") =>
        /\ util_pc = "returned"
        /\ \E object \in JsonObjects, before, after \in SeqsUpTo(TextTokens, MaxProse) :
              /\ \E block \in Fenced(object) : util_args = Around(before, block, after)
              /\ util_ret = JsonLoads(object).value

\* C13 (as claimed): for a response with none of the characters { [ } ],
\* load_json_from_response raises and returns no value.
C13_NoBracketsIsParseError ==
    (~HasBracket(util_args) /\ util_pc # "load_json_from_response") =>
        util_pc = "raised"

---------------------------------------------------------------------------
(* Claims about the requirements list, checked under SpecRequirements *)

\* C14: the requirements list holds exactly the names that occur in some
\* artifact's dependency list or in the analyzer's libraries, each once, in
\* ascending lexicographic order.
C14_RequirementsSortedUnion ==
    util_pc = "returned" =>
        /\ Range(util_ret) =
              {n \in PackageNames :
                  \/ \E i \in DOMAIN util_args.dependencies :
                        \E j \in DOMAIN util_args.dependencies[i] :
                            util_args.dependencies[i][j] = n
                  \/ \E j \in DOMAIN util_args.libraries : util_args.libraries[j] = n}
        /\ \A i, j \in DOMAIN util_ret : i < j => LexLess(util_ret[i], util_ret[j])

\* C14 witness: "b" and "ab" from two artifacts and "a" from the analyzer give
\* a, ab, b.
C14_Witness ==
    /\ util_pc = "returned"
    /\ util_args.dependencies = << <<<<2>>>>, <<<<1, 2>>>> >>
    /\ util_args.libraries = << <<1>> >>
    /\ util_ret = << <<1>>, <<1, 2>>, <<2>> >>

---------------------------------------------------------------------------
(* Claims about the order of the artifacts, checked under SpecAssembly *)

\* the priority of the descriptor at 0-based position p: its own, or p
PriorityAt(p) ==
    IF task_data[p + 1].priority = None THEN p ELSE task_data[p + 1].priority[1]

\* the task at position p comes before the task at position q
Precedes(p, q) ==
    \/ PriorityAt(p) < PriorityAt(q)
    \/ PriorityAt(p) = PriorityAt(q) /\ p < q

\* the task artifacts of a list are in ascending priority, ties in
\* extraction order, each task at most once
TasksInOrder(listing) ==
    \A i, j \in DOMAIN listing :
        (i < j /\ listing[i].task_pos >= 0 /\ listing[j].task_pos >= 0)
            => Precedes(listing[i].task_pos, listing[j].task_pos)

\* C15: the README lists the task artifacts in ascending task priority, tasks
\* of equal priority in extraction order, a descriptor without priority
\* counting with its list position; the artifact lists after synthesis and
\* after fix application are in that order too, whichever tasks were dropped.
C15_ReadmeInPriorityOrder ==
    /\ TasksInOrder(generated_codes)
    /\ TasksInOrder(final_codes)
    /\ TasksInOrder(readme)
    /\ wpc = "returned" =>
          /\ Len(readme) = Len(generated_codes)
          /\ \A i \in DOMAIN readme : readme[i].task_pos = generated_codes[i].task_pos

\* C15 witness: priorities 1 and 0 in extraction order; the README lists the
\* second task, the first task, the main program.
C15_Witness ==
    /\ wpc = "returned"
    /\ task_data = <<[priority |-> Some(1), task_type |-> "utility"],
                    [priority |-> Some(0), task_type |-> "utility"]>>
    /\ Len(readme) = 3
    /\ readme[1].task_pos = 1
    /\ readme[2].task_pos = 0
    /\ readme[3].task_pos = -1
    /\ \E i \in DOMAIN results : results[i].fixed_code # None

\* the bundle was assembled from task artifacts and an integration artifact
WithTasksAndMain ==
    /\ wpc = "returned"
    /\ \E i \in DOMAIN final_codes : final_codes[i].task_pos >= 0
    /\ \E i \in DOMAIN final_codes : final_codes[i].task_pos = -1

\* C16: when synthesis yields task artifacts and an integration artifact, the
\* files of the bundle are, in order, the task artifacts in ascending priority
\* and then the integration artifact as the last file, one file per artifact,
\* whatever the file names.
C16_FilesInArtifactOrder ==
    WithTasksAndMain =>
        /\ TasksInOrder(final_codes)
        /\ final_codes[Len(final_codes)].task_pos = -1
        /\ Len(project_files) = Len(final_codes)
        /\ \A i \in DOMAIN final_codes :
              /\ project_files[i].key = final_codes[i].file_name
              /\ project_files[i].value = final_codes[i].code

\* the position of the last artifact of the final list with a file name
LastWith(name) ==
    CHOOSE i \in DOMAIN final_codes :
        /\ final_codes[i].file_name = name
        /\ \A j \in DOMAIN final_codes : final_codes[j].file_name = name => j <= i

\* C25: the file mapping of the bundle has exactly one entry per distinct file
\* name of the final artifact list, and the entry of a name holds the source
\* text of the last artifact of the list with that name.
C25_LastWriterWins ==
    wpc = "returned" =>
        /\ \A i \in DOMAIN final_codes :
              \E k \in DOMAIN project_files :
                  /\ project_files[k].key = final_codes[i].file_name
                  /\ project_files[k].value = final_codes[LastWith(final_codes[i].file_name)].code
        /\ \A k \in DOMAIN project_files :
              \E i \in DOMAIN final_codes : final_codes[i].file_name = project_files[k].key
        /\ \A k, l \in DOMAIN project_files :
              k # l => project_files[k].key # project_files[l].key

\* C25 witness: two artifacts named main.py with different texts; the mapping
\* has one entry, with the text of the second
C25_Witness ==
    /\ wpc = "returned"
    /\ Len(final_codes) = 2
    /\ final_codes[1].file_name = "main.py"
    /\ final_codes[2].file_name = "main.py"
    /\ final_codes[1].code # final_codes[2].code
    /\ project_files = <<[key |-> "main.py", value |-> final_codes[2].code]>>

---------------------------------------------------------------------------
(* Claims about AnalyzerAgent.run, checked under SpecAnalyzer *)

\* the auxiliary data files passed to run
AuxiliaryFiles == IF util_args.data_files = None THEN <<>> ELSE util_args.data_files[1]

\* the data-source kind of a file type
KindOf(file_type) == IF file_type = "excel" THEN "excel_file" ELSE "csv_file"

\* C17: _determine_data_source makes no model call, and its result is the
\* kind of an auxiliary data file when there is one, embedded when there is
\* none and the document has tables, and no-data otherwise.
C17_DataSourcePriorityRule ==
    util_pc # "determine_data_source" =>
        /\ util_pc = "analyze_thesis_type" => service_log = <<>>
        /\ AuxiliaryFiles # <<>> =>
              \E i \in DOMAIN AuxiliaryFiles : util_ret.data_source = KindOf(AuxiliaryFiles[i])
        /\ (AuxiliaryFiles = <<>> /\ util_args.tables > 0) => util_ret.data_source = "pdf_embedded"
        /\ (AuxiliaryFiles = <<>> /\ util_args.tables = 0) => util_ret.data_source = "no_data"

\* C17 witness: a csv file next to a document with a table gives csv
C17_Witness ==
    /\ util_pc = "analyze_thesis_type"
    /\ util_args.data_files = Some(<<"csv">>)
    /\ util_args.tables = 1
    /\ util_ret.data_source = "csv_file"
    /\ service_log = <<>>

\* a step of run whose model call failed, once the step is over
Failed(step) == step \in util_ret.failed

\* run is not aborted by a failed call, and a failed classification or
\* decomposition yields OTHER or the empty task list
FailuresDegrade ==
    /\ util_pc = "raised" => ~Failed("analyze_thesis_type")
    /\ util_ret.failed = {"analyze_thesis_type", "generate_code_tasks", "determine_tech_stack"}
          => util_pc # "raised"
    /\ Failed("analyze_thesis_type") => util_ret.thesis_analysis.type = ThesisTypeOTHER
    /\ Failed("generate_code_tasks") => util_ret.code_tasks = <<>>

---------------------------------------------------------------------------
(* Claims about the dependencies of a tool payload, checked under
   SpecDependencies *)

\* the dependency string decodes to a JSON list
DecodesToList ==
    /\ util_args.kind = "str"
    /\ JsonLoads(util_args.text).ok
    /\ JsonLoads(util_args.text).value[1] = "["

\* the elements of that list
DecodedElements == ListElements(JsonLoads(util_args.text).value, 2)

\* C18: a dependency field that arrives as a string is JSON-decoded; when it
\* decodes to a list the artifact's dependencies are the elements of the list
\* (an artifact is built whenever they are names); when it does not decode,
\* or decodes to something else, the artifact is built with no dependencies;
\* the string itself is never the single dependency.
C18_StringDependenciesDecoded ==
    (util_pc = "returned" /\ util_args.kind = "str") =>
        /\ DecodesToList =>
              /\ util_ret # None => util_ret[1] = DecodedElements
              /\ (\A i \in DOMAIN DecodedElements : IsStr(DecodedElements[i])) => util_ret # None
        /\ ~DecodesToList => util_ret = Some(<<>>)
        /\ util_ret # Some(<<util_args.text>>)

\* C18 witness: the string ["numpy", "scipy"] gives the two names
C18_Witness ==
    /\ util_pc = "returned"
    /\ util_args.kind = "str"
    /\ util_args.text = <<"[", "\"numpy\"", COMMA, "\"scipy\"", "]">>
    /\ util_ret = Some(<< <<"\"numpy\"">>, <<"\"scipy\"">> >>)

---------------------------------------------------------------------------
(* Claims about the requests of CoderAgent.run, checked under SpecCoder *)

\* the tasks of the analysis result in the order run takes them: ascending
\* priority, ties in list order
RECURSIVE InPriorityOrder(_)
InPriorityOrder(ts) ==
    IF ts = <<>> THEN <<>>
    ELSE LET i == CHOOSE k \in DOMAIN ts :
                     /\ \A j \in DOMAIN ts : ts[k].priority <= ts[j].priority
                     /\ \A j \in 1..(k - 1) : ts[j].priority > ts[k].priority
         IN  <<ts[i]>> \o InPriorityOrder([j \in 1..(Len(ts) - 1) |-> IF j < i THEN ts[j] ELSE ts[j + 1]])

\* the user turn for the k-th task, from the arguments of run alone
UserTurnFor(k) ==
    [role |-> "user",
     content |-> [context |-> [code_tasks |-> util_args.code_tasks,
                               data_files |-> util_args.data_files],
                  task |-> InPriorityOrder(util_args.code_tasks)[k]]]

\* the requests sent so far, and how many of them are for tasks
Requests == IF util_pc = "coder_begin" THEN <<>> ELSE util_ret.requests
TaskRequests == IF util_pc = "coder_begin" THEN 0 ELSE util_ret.next - 1

\* C20: every generation request has exactly two turns, the system prompt and
\* one user turn, and the request for a task is determined by the analysis
\* result, the data files and the task alone: it is the same whatever the
\* answers, failures and artifacts of the tasks before it.
C20_RequestsAreStateless ==
    /\ \A i \in DOMAIN Requests :
          /\ Len(Requests[i]) = 2
          /\ Requests[i][1] = [role |-> "system", content |-> "system_prompt"]
          /\ Requests[i][2].role = "user"
    /\ TaskRequests <= Len(Requests)
    /\ \A k \in 1..TaskRequests : Requests[k][2] = UserTurnFor(k)

\* C20 witness: the first task gave an artifact, the second was dropped, the
\* third request is for the main program
C20_Witness ==
    /\ util_pc = "returned"
    /\ Len(util_args.code_tasks) = 2
    /\ util_args.code_tasks[1].priority > util_args.code_tasks[2].priority
    /\ Len(util_ret.requests) = 3
    /\ Len(util_ret.generated_codes) = 1
    /\ util_ret.generated_codes[1].task_pos = 1
    /\ util_ret.requests[2][2] = UserTurnFor(2)

\* the state of run once its first step is over
Begun == util_pc # "coder_begin"

\* the artifacts run has collected so far
Collected == IF Begun THEN util_ret.generated_codes ELSE <<>>

\* C21: a task whose generation fails (the service raises after its retries,
\* the tool payload does not decode, or the answer has neither a tool call nor
\* a python block) gives no artifact and raises nothing out of run; the tasks
\* after it are still requested, so that run returns after one request per
\* task; and there are never more artifacts than tasks plus one.
C21_FailedTaskIsDropped ==
    /\ util_pc # "raised"
    /\ Len(Collected) <= Len(util_args.code_tasks) + 1
    /\ Begun =>
          /\ \A k \in 1..TaskRequests :
                util_ret.failures[k] # "none" =>
                    \A i \in DOMAIN Collected :
                        Collected[i].task_pos # util_ret.sorted_tasks[k].task_pos
          /\ util_pc = "returned" => TaskRequests = Len(util_args.code_tasks)

\* C21 witness: the first of two tasks fails with a service error, the second
\* is requested and gives an artifact, and the main program follows
C21_Witness ==
    /\ util_pc = "returned"
    /\ Len(util_args.code_tasks) = 2
    /\ util_ret.failures[1] = "service_error"
    /\ util_ret.failures[2] = "none"
    /\ Len(util_ret.requests) = 3
    /\ Len(util_ret.generated_codes) = 2
    /\ util_ret.generated_codes[1].task_pos = util_ret.sorted_tasks[2].task_pos
    /\ util_ret.generated_codes[2].task_id = "main"

\* the integration requests sent so far
MainRequests == IF Begun THEN util_ret.main_requests ELSE 0

\* the integration request comes after the request of the last task, as the
\* last request of the run, and an integration request that fails leaves no
\* integration artifact; nothing is raised
IntegrationRequestLast ==
    /\ util_pc # "raised"
    /\ MainRequests <= 1
    /\ MainRequests = 1 =>
          /\ TaskRequests = Len(util_args.code_tasks)
          /\ Len(Requests) = TaskRequests + 1
          /\ util_ret.failures[Len(Requests)] # "none" =>
                \A i \in DOMAIN Collected : Collected[i].task_pos # -1

\* C22 as stated: every run of CoderAgent.run sends exactly one integration
\* request, after the request of the last task; when it fails the result has
\* no integration artifact and nothing is raised.
C22_ExactlyOneIntegrationRequest ==
    /\ IntegrationRequestLast
    /\ util_pc = "returned" => MainRequests = 1

\* C22 amended: a run in which some task gave an artifact sends exactly one
\* integration request, a run without task artifacts sends none; the rest as
\* stated.
C22_OneIntegrationRequestIfArtifacts ==
    /\ IntegrationRequestLast
    /\ util_pc = "returned" =>
          MainRequests = IF \E i \in DOMAIN Collected : Collected[i].task_pos >= 0 THEN 1 ELSE 0

\* C22 witness: a task gave an artifact and the integration request, the last
\* request of the run, failed: the result has the task artifact only
C22_Witness ==
    /\ util_pc = "returned"
    /\ util_ret.main_requests = 1
    /\ Len(util_ret.requests) = Len(util_args.code_tasks) + 1
    /\ util_ret.failures[Len(util_ret.requests)] = "service_error"
    /\ Len(util_ret.generated_codes) = 1
    /\ util_ret.generated_codes[1].task_pos >= 0

\* the ids of the tasks of the analysis result
AnalysisTaskIds == {util_args.code_tasks[k].task_id : k \in DOMAIN util_args.code_tasks}

\* C23: in the list CoderAgent.run returns, every artifact carries the id of a
\* task of the analysis result or, at most one of them and then the last one,
\* the reserved id "main"; no task id is on two artifacts.
C23_ArtifactIdsMatchTasks ==
    util_pc = "returned" =>
        /\ \A i \in DOMAIN Collected :
              Collected[i].task_id \in AnalysisTaskIds \cup {"main"}
        /\ \A i \in DOMAIN Collected :
              Collected[i].task_id = "main" => i = Len(Collected)
        /\ \A i, j \in DOMAIN Collected :
              i # j => Collected[i].task_id # Collected[j].task_id

---------------------------------------------------------------------------
(* Claims about _generate_code_for_task, checked under SpecTaskResponse *)

\* the positions of the generate_code invocations of the answer
GenerateCodeCalls ==
    IF util_args.response.kind = "error" THEN {}
    ELSE {i \in DOMAIN util_args.response.tool_calls :
             util_args.response.tool_calls[i].name = "generate_code"}

\* the payload of the first generate_code invocation
Payload ==
    LET first == CHOOSE i \in GenerateCodeCalls : \A j \in GenerateCodeCalls : i <= j
    IN  util_args.response.tool_calls[first].arguments

\* the payload is a JSON object whose code, when present, is a string
PayloadUsable == Payload.kind = "object" /\ Payload.code.kind # "other"

\* the artifact made of the fields of the payload
PayloadArtifact ==
    [task_id |-> util_args.task.task_id,
     file_name |-> IF Payload.file_name = None
                   THEN DefaultFileName(util_args.task)
                   ELSE Payload.file_name[1],
     code |-> IF Payload.code.kind = "absent" THEN EmptyText ELSE Payload.code.text,
     description |-> IF Payload.description = None
                     THEN DescriptionOf(util_args.task)
                     ELSE <<Payload.description[1]>>,
     dependencies |-> Dependencies(Payload.dependencies).items,
     task_pos |-> util_args.task.task_pos]

\* the artifact made of the first python block of the prose
ProseArtifact ==
    [task_id |-> util_args.task.task_id,
     file_name |-> DefaultFileName(util_args.task),
     code |-> util_args.response.content.block[1],
     description |-> DescriptionOf(util_args.task),
     dependencies |-> <<>>,
     task_pos |-> util_args.task.task_pos]

\* C24: when the answer carries a generate_code invocation with a decodable
\* payload, the artifact's code, file name, description and dependencies are
\* those of the payload, a missing file name being "<task kind>.py", and the
\* prose is ignored; a python block of the prose is used only when the answer
\* carries no generate_code invocation, with the file name "<task kind>.py".
C24_PayloadPreferredOverProse ==
    (util_pc = "returned" /\ util_args.response.kind = "message") =>
        /\ GenerateCodeCalls # {} =>
              util_ret = IF PayloadUsable THEN Some(PayloadArtifact) ELSE None
        /\ GenerateCodeCalls = {} =>
              util_ret = IF util_args.response.content.present
                            /\ util_args.response.content.block # None
                         THEN Some(ProseArtifact)
                         ELSE None

---------------------------------------------------------------------------
(* Claims about run calls on one controller *)

\* the run call r has started and has neither returned nor raised
InProgress(r) == runs[r].pc \notin {"idle", "returned", "raised"}

\* the working directory made for the id the run call r drew
OwnDirectory(r) == create_work_dir(runs[r].task_id)

\* C26: the run id and the working directory of a run are generated once at
\* its start and do not change until it returns: every file the run writes
\* goes to that run's directory and the project name of the returned bundle
\* is that run's id, also when two runs of one controller interleave at
\* their await points.
C26_RunIdentityStable ==
    \A r \in Runs :
        /\ InProgress(r) =>
              /\ self_task_id = runs[r].task_id
              /\ self_work_dir = OwnDirectory(r)
        /\ runs[r].wrote \subseteq {OwnDirectory(r)}
        /\ runs[r].pc = "returned" =>
              runs[r].project_output[1].project_name = runs[r].task_id

StageOrder == <<"ingestion", "analysis", "synthesis", "validation", "assembly">>

\* the stage whose network call the coroutine is suspended in
AwaitedStage ==
    [await_load |-> "ingestion", await_analyze |-> "analysis",
     await_code |-> "synthesis", await_validate |-> "validation"]

AwaitPoints == DOMAIN AwaitedStage

\* C27: within one run the stages start in the order ingestion, analysis,
\* synthesis, validation, assembly: the stages started so far are an initial
\* part of that order, so none runs twice and none starts after a later one,
\* and while a stage has not returned it is the last one started.
C27_StagesInOrder ==
    \A r \in Runs :
        /\ Len(runs[r].stages) <= Len(StageOrder)
        /\ runs[r].stages = SubSeq(StageOrder, 1, Len(runs[r].stages))
        /\ runs[r].pc \in AwaitPoints =>
              runs[r].stages[Len(runs[r].stages)] = AwaitedStage[runs[r].pc]

C27_Witness ==
    \E r \in Runs : runs[r].pc = "returned" /\ runs[r].stages = StageOrder

\* no other run call has started
Alone(r) == \A q \in Runs \ {r} : runs[q].pc = "idle"

\* the names of the deliverables of a bundle
Deliverables == RunFileNames \cup {"requirements.txt", "README.md", "RUN_INSTRUCTIONS.md"}

\* C28: a run in which a step raised returns no bundle, and its working
\* directory holds none of the bundle's deliverables (artifact files,
\* requirements.txt, README.md, run instructions).
C28_FailedRunLeavesNoDeliverables ==
    \A r \in Runs :
        (runs[r].pc = "raised" /\ Alone(r)) =>
            \A f \in disk : f.dir = OwnDirectory(r) => f.name \notin Deliverables

\* a network call of the run call r begins in this step
NetworkCallBegins(r) == runs[r].pc \notin AwaitPoints /\ runs'[r].pc \in AwaitPoints

\* C29: once the deadline of the caller has passed during a run, the run
\* starts no further network call.
C29_NoCallAfterDeadline ==
    [][\A r \in signalled : ~NetworkCallBegins(r)]_vars

\* C30: after a successful run, for every file name in the mapping of the
\* bundle the working directory holds a file of that name with exactly the
\* mapped text, whatever the file names of the artifacts.
C30_MappedFilesOnDisk ==
    \A r \in Runs :
        (runs[r].pc = "returned" /\ Alone(r)) =>
            \A item \in {runs[r].project_output[1].files[i] :
                            i \in DOMAIN runs[r].project_output[1].files} :
                [dir |-> OwnDirectory(r), name |-> item.key, text |-> item.value] \in disk

---------------------------------------------------------------------------
(* Claims about _generate_code_tasks *)

\* _generate_code_tasks has returned
TasksGenerated == util_pc = "determine_tech_stack"

\* C31: the task ids of the code tasks of an analysis result are pairwise
\* distinct.
C31_TaskIdsDistinct ==
    TasksGenerated =>
        \A i, j \in DOMAIN util_ret.code_tasks :
            i # j => util_ret.code_tasks[i].task_id # util_ret.code_tasks[j].task_id

\* the task at position k was made from the descriptor at position k
FromDescriptor(task, k) ==
    /\ task.task_pos = k - 1
    /\ task.task_type = _parse_task_type(task_data[k].task_type)
    /\ task.priority = IF task_data[k].priority = None
                       THEN k - 1
                       ELSE task_data[k].priority[1]

\* C39: task decomposition is all-or-nothing: the result is one task per
\* descriptor of the answer, in the order of the answer, or the empty list,
\* and one descriptor that cannot be converted makes it the empty list.
C39_DecompositionAllOrNothing ==
    TasksGenerated =>
        /\ \/ util_ret.code_tasks = <<>>
           \/ /\ Len(util_ret.code_tasks) = Len(task_data)
              /\ \A k \in DOMAIN task_data : FromDescriptor(util_ret.code_tasks[k], k)
        /\ (\E k \in DOMAIN task_data : ~task_data[k].convertible) =>
               util_ret.code_tasks = <<>>

C39_Witness ==
    /\ TasksGenerated
    /\ Len(task_data) = 2
    /\ task_data[1].convertible
    /\ ~task_data[2].convertible
    /\ util_ret.code_tasks = <<>>

---------------------------------------------------------------------------
(* Claims about the arguments of CoderAgent.run *)

\* C32: CoderAgent.run leaves the analysis result unchanged: no step of it
\* changes the task list, which keeps its tasks, their fields and their
\* order although the tasks are processed in priority order.
C32_AnalysisResultUnchanged ==
    [][util_args' = util_args]_vars

C32_Witness ==
    /\ util_pc = "returned"
    /\ Len(util_args.code_tasks) = 2
    /\ util_args.code_tasks[1].priority > util_args.code_tasks[2].priority
    /\ util_ret.sorted_tasks # util_args.code_tasks
    /\ Len(util_ret.requests) >= 2

---------------------------------------------------------------------------
(* Further claims about the validator and _apply_fixes *)

\* C33: whatever max_retries is, at most one fix request is made per
\* artifact: an accepted fix passes the syntax check, the import check does
\* not fail on text that parses, so no request follows an accepted fix.
C33_AtMostOneFixRequest ==
    /\ \A i \in 1..Len(fix_log) : FixRequests(i) <= 1
    /\ \A i \in 1..Len(fix_log) :
          FirstFixAccepted(i) =>
              /\ _check_syntax(fix_log[i][1].text)[1]
              /\ _check_imports(fix_log[i][1].text)[1]

C33_Witness ==
    \E i \in Validated :
        /\ max_retries >= 2
        /\ FirstFixAccepted(i)
        /\ FixRequests(i) = 1
        /\ results[i].is_valid

\* C34: an outcome carries fixed_code only if it is valid; a valid outcome
\* carries it exactly when the working text differs from the original
\* text of the artifact, and then it is the working text; an invalid
\* outcome carries none, also after a fix was accepted.
C34_FixedCodeOnlyOnValid ==
    \A i \in Validated :
        /\ results[i].fixed_code # None => results[i].is_valid
        /\ results[i].is_valid =>
              results[i].fixed_code = IF working[i] # generated_codes[i].code
                                      THEN Some(working[i])
                                      ELSE None

C34_Witness ==
    \E i \in Validated :
        /\ FirstFixAccepted(i)
        /\ ~results[i].is_valid
        /\ working[i] # generated_codes[i].code
        /\ results[i].fixed_code = None

\* the fixed_code of the outcome kept for the task id, if any
FixedCodeFor(task_id) ==
    LET kept == {k \in DOMAIN results :
                    /\ results[k].task_id = task_id
                    /\ \A j \in DOMAIN results :
                          results[j].task_id = task_id => j <= k}
    IN  IF kept = {} THEN None ELSE results[CHOOSE k \in kept : TRUE].fixed_code

\* C35: _apply_fixes returns a list of the same length and order as its
\* input; each output artifact has the fields of the input artifact at its
\* position, except that its text is the fixed_code of the outcome for its
\* task id when there is one; the input list is not modified.
C35_ApplyFixesKeepsShape ==
    [][(vpc = "returned" /\ vpc' = "applied") =>
          /\ generated_codes' = generated_codes
          /\ Len(final_codes') = Len(generated_codes)
          /\ \A i \in DOMAIN generated_codes :
                final_codes'[i] =
                    IF FixedCodeFor(generated_codes[i].task_id) = None
                    THEN generated_codes[i]
                    ELSE [generated_codes[i] EXCEPT
                             !.code = FixedCodeFor(generated_codes[i].task_id)[1]]]_vars

C35_Witness ==
    /\ vpc = "applied"
    /\ Len(generated_codes) = 2
    /\ final_codes[1].code # generated_codes[1].code
    /\ final_codes[1].file_name = generated_codes[1].file_name
    /\ final_codes[2] = generated_codes[2]

---------------------------------------------------------------------------
(* Further claims about the parser *)

\* C36: for a URL the only tiers invoked are the submission and the
\* polling: neither the upload nor the local extraction is invoked, so a
\* failed submission, a failed conversion or a timeout gives the empty
\* document directly.
C36_UrlUsesRemoteTiersOnly ==
    pdf_path = "url" =>
        /\ \A i \in DOMAIN tier_log : tier_log[i] \in {"submit", "poll"}
        /\ ppc \notin {"upload", "local"}
        /\ (ppc = "done" /\ (tier_log = <<"submit">> \/ poll_exit.value = MdNone)) =>
               parsed_content = ParsedContent("", FALSE)

C36_Witness ==
    /\ pdf_path = "url"
    /\ ppc = "done"
    /\ tier_log = <<"submit", "poll">>
    /\ poll_exit.how = "failed"
    /\ parsed_content = ParsedContent("", FALSE)

\* C37: for a local file, once the remote conversion has reached the status
\* completed, with any text, local extraction is not invoked.
C37_CompletedConversionWins ==
    (pdf_path = "local" /\ completed_seen) => ~Invoked("local")

\* the status checks after which the loop goes on
NonTerminalChecks == {"raise", "http_error", "processing", "completed_fetch_raises"}

\* C38: a status check that raises or answers with an HTTP status other than
\* 200 does not end the polling: the loop sleeps interval seconds and, unless
\* max_wait seconds have elapsed, checks again; the polling ends only on the
\* status completed, on the status failed, or when max_wait seconds have
\* elapsed, and no status check follows the status failed.
C38_TransportErrorsAreNotTerminal ==
    /\ [][(ppc = "poll" /\ PollGuard(now, start_time)
              /\ last_status' \in {"raise", "http_error"})
             => (ppc' = "poll_sleep" /\ poll_exit' = poll_exit)]_vars
    /\ [][ppc = "poll_sleep" => (ppc' = "poll" /\ now' = now + PollInterval)]_vars
    /\ [][(ppc = "poll" /\ PollGuard(now, start_time))
             => last_check' = now - start_time]_vars
    /\ [](ppc = "poll_sleep" => last_status \in NonTerminalChecks)
    /\ [](poll_exit.how = "completed" =>
             last_status \in {"completed_inline", "completed_fetched"})
    /\ [](poll_exit.how = "failed" => last_status = "failed")
    /\ [](poll_exit.how = "timeout" =>
             (last_status \in NonTerminalChecks \cup {"none"}
              /\ now - start_time >= PollMaxWait))
    /\ [][last_status = "failed" =>
             (last_status' = "failed" /\ last_check' = last_check)]_vars

C38_Witness ==
    /\ ppc = "poll"
    /\ last_status = "http_error"
    /\ slept = PollInterval
    /\ last_check > 0
    /\ PollGuard(now, start_time)

=============================================================================
